---- MODULE Spec2Model ----
(***************************************************************************)
(* A model of the arguably command line parser (src/src/lib.rs).           *)
(*                                                                         *)
(* A Rust String is a sequence of one-character strings, so that prefix    *)
(* tests, splitting and trimming are computed as the code computes them.   *)
(* An Option<T> is a sequence of length at most one: None is <<>> and      *)
(* Some(x) is <<x>>.  A HashMap<String, usize> is a function from alias    *)
(* strings to 0-based indices, as in the code.                             *)
(***************************************************************************)
EXTENDS Integers, Sequences, FiniteSets, TLC

None == <<>>

Some(x) == <<x>>

\* The characters with the Unicode property White_Space, as far as a string
\* of this module can hold them: U+0009 to U+000D, U+0020, U+0085, U+00A0
\* and U+1680.  (U+2000 to U+200A, U+2028, U+2029, U+202F, U+205F and U+3000
\* have the property too.)
White_Space ==
    { "\t", "\n", "", "\f", "\r", " ", "", " ", " " }

\* char::is_whitespace
is_whitespace(c) == c \in White_Space

\* The characters of the Unicode general categories Nd, Nl and No, as far as
\* a string of this module can hold them: the ASCII digits, the superscripts
\* and fractions of Latin-1, and the digits and numbers of other scripts.
Numeric ==
    { "0", "1", "2", "3", "4", "5", "6", "7", "8", "9",
      "²", "³", "¹", "¼", "½", "¾", "۰", "۱", "۲", "۳",
      "۴", "۵", "۶", "۷", "۸", "۹", "߀", "߁", "߂", "߃",
      "߄", "߅", "߆", "߇", "߈", "߉", "০", "১", "২", "৩",
      "৪", "৫", "৬", "৭", "৮", "৯", "৴", "৵", "৶", "৷",
      "৸", "৹", "૦", "૧", "૨", "૩", "૪", "૫", "૬", "૭",
      "૮", "૯", "௦", "௧", "௨", "௩", "௪", "௫", "௬", "௭",
      "௮", "௯", "௰", "௱", "௲", "೦", "೧", "೨", "೩", "೪",
      "೫", "೬", "೭", "೮", "೯", "෦", "෧", "෨", "෩", "෪",
      "෫", "෬", "෭", "෮", "෯", "໐", "໑", "໒", "໓", "໔",
      "໕", "໖", "໗", "໘", "໙", "႐", "႑", "႒", "႓", "႔",
      "႕", "႖", "႗", "႘", "႙", "ᛮ", "ᛯ", "ᛰ", "០", "១",
      "២", "៣", "៤", "៥", "៦", "៧", "៨", "៩", "៰", "៱",
      "៲", "៳", "៴", "៵", "៶", "៷", "៸", "៹", "᧐", "᧑",
      "᧒", "᧓", "᧔", "᧕", "᧖", "᧗", "᧘", "᧙", "᧚", "᪀",
      "᪁", "᪂", "᪃", "᪄", "᪅", "᪆", "᪇", "᪈", "᪉", "᪐",
      "᪑", "᪒", "᪓", "᪔", "᪕", "᪖", "᪗", "᪘", "᪙", "᮰",
      "᮱", "᮲", "᮳", "᮴", "᮵", "᮶", "᮷", "᮸", "᮹", "₀",
      "₁", "₂", "₃", "₄", "₅", "₆", "₇", "₈", "₉", "ↀ",
      "ↁ", "ↂ", "ↅ", "ↆ", "ↇ", "ↈ", "↉", "⒀", "⒁", "⒂",
      "⒃", "⒄", "⒅", "⒆", "⒇", "⒈", "⒉", "⒊", "⒋", "⒌",
      "⒍", "⒎", "⒏", "⒐", "⒑", "⒒", "⒓", "⒔", "⒕", "⒖",
      "⒗", "⒘", "⒙", "⒚", "⒛", "⓪", "⓫", "⓬", "⓭", "⓮",
      "⓯", "⓰", "⓱", "⓲", "⓳", "⓴", "⓵", "⓶", "⓷", "⓸",
      "⓹", "⓺", "⓻", "⓼", "⓽", "⓾", "⓿", "➀", "➁", "➂",
      "➃", "➄", "➅", "➆", "➇", "➈", "➉", "➊", "➋", "➌",
      "➍", "➎", "➏", "➐", "➑", "➒", "➓", "⳽", "㆒", "㆓",
      "㆔", "㆕", "㊀", "㊁", "㊂", "㊃", "㊄", "㊅", "㊆", "㊇",
      "㊈", "㊉", "㊱", "㊲", "㊳", "㊴", "㊵", "㊶", "㊷", "㊸",
      "㊹", "㊺", "㊻", "㊼", "㊽", "㊾", "㊿", "ꛦ", "ꛧ", "ꛨ",
      "ꛩ", "ꛪ", "ꛫ", "ꛬ", "ꛭ", "ꛮ", "ꛯ", "꣐", "꣑", "꣒",
      "꣓", "꣔", "꣕", "꣖", "꣗", "꣘", "꣙", "꧐", "꧑", "꧒",
      "꧓", "꧔", "꧕", "꧖", "꧗", "꧘", "꧙", "꧰", "꧱", "꧲",
      "꧳", "꧴", "꧵", "꧶", "꧷", "꧸", "꧹", "꯰", "꯱", "꯲",
      "꯳", "꯴", "꯵", "꯶", "꯷", "꯸", "꯹" }

\* char::is_numeric
is_numeric(c) == c \in Numeric

\* str::starts_with
starts_with(s, prefix) ==
    /\ Len(s) >= Len(prefix)
    /\ SubSeq(s, 1, Len(prefix)) = prefix

\* str::contains, for a one-character pattern
contains(s, c) == \E i \in 1..Len(s) : s[i] = c

\* &s[n..]
slice_from(s, n) == SubSeq(s, n + 1, Len(s))

\* The position of the first occurrence of c in s (1-based), 0 when absent.
RECURSIVE find_from(_, _, _)
find_from(s, c, i) ==
    IF i > Len(s) THEN 0
    ELSE IF s[i] = c THEN i
    ELSE find_from(s, c, i + 1)

\* s.splitn(2, c).collect(): at most two pieces, split at the first c.
splitn2(s, c) ==
    LET p == find_from(s, c, 1)
    IN  IF p = 0 THEN <<s>>
        ELSE <<SubSeq(s, 1, p - 1), SubSeq(s, p + 1, Len(s))>>

\* str::trim_start_matches, for a one-character pattern
RECURSIVE trim_start_matches(_, _)
trim_start_matches(s, c) ==
    IF Len(s) > 0 /\ s[1] = c THEN trim_start_matches(Tail(s), c) ELSE s

RECURSIVE trim_start(_)
trim_start(s) ==
    IF Len(s) > 0 /\ is_whitespace(s[1]) THEN trim_start(Tail(s)) ELSE s

RECURSIVE trim_end(_)
trim_end(s) ==
    IF Len(s) > 0 /\ is_whitespace(s[Len(s)])
    THEN trim_end(SubSeq(s, 1, Len(s) - 1))
    ELSE s

\* str::trim
trim(s) == trim_end(trim_start(s))

\* str::split_whitespace: the maximal runs of non-whitespace, in order.
\* cur is the run being read, acc the runs already closed.
RECURSIVE split_ws_from(_, _, _, _)
split_ws_from(s, i, cur, acc) ==
    IF i > Len(s)
    THEN IF cur = <<>> THEN acc ELSE Append(acc, cur)
    ELSE IF is_whitespace(s[i])
         THEN split_ws_from(s, i + 1, <<>>,
                            IF cur = <<>> THEN acc ELSE Append(acc, cur))
         ELSE split_ws_from(s, i + 1, Append(cur, s[i]), acc)

split_whitespace(s) == split_ws_from(s, 1, <<>>, <<>>)

(***************************************************************************)
(* HashMap<String, usize>                                                  *)
(***************************************************************************)
HashMapNew == [k \in {} |-> 0]

contains_key(m, k) == k \in DOMAIN m

\* HashMap::insert: a later insertion of the same key overwrites.
insert(m, k, v) == [x \in (DOMAIN m) \cup {k} |-> IF x = k THEN v ELSE m[x]]

\* for alias in name.split_whitespace() { map.insert(alias, index) }
RECURSIVE insert_all(_, _, _)
insert_all(m, aliases, index) ==
    IF aliases = <<>> THEN m
    ELSE insert_all(insert(m, Head(aliases), index), Tail(aliases), index)

\* vec[index], with the code's 0-based index
At(vec, index) == vec[index + 1]

\* Vec::remove(index): the vector without the element at the 0-based index.
remove(vec, index) ==
    SubSeq(vec, 1, index) \o SubSeq(vec, index + 2, Len(vec))

(***************************************************************************)
(* ArgParser and its builder methods.  Each takes self by value and        *)
(* returns it, so each is a function from parsers to parsers.              *)
(***************************************************************************)
new ==
    [ helptext    |-> None,
      version     |-> None,
      args        |-> <<>>,
      options     |-> <<>>,
      option_map  |-> HashMapNew,
      flags       |-> <<>>,
      flag_map    |-> HashMapNew,
      commands    |-> <<>>,
      command_map |-> HashMapNew,
      callback    |-> None,
      cmd_name    |-> None,
      cmd_parser  |-> None,
      cmd_help    |-> FALSE ]

helptext(self, text) == [self EXCEPT !.helptext = Some(text)]

version(self, text) == [self EXCEPT !.version = Some(text)]

option(self, name, default) ==
    LET options == Append(self.options, [values |-> <<>>, default |-> default])
        index   == Len(options) - 1
    IN  [self EXCEPT !.options = options,
                     !.option_map = insert_all(@, split_whitespace(name), index)]

\* Every alias gets a Flag of its own.
flag_entry_per_alias(self, name) ==
    LET aliases == split_whitespace(name)
        base    == Len(self.flags)
        first(x) == CHOOSE i \in 1..Len(aliases) : aliases[i] = x
    IN  [self EXCEPT
            !.flags = @ \o [i \in 1..Len(aliases) |-> [count |-> 0]],
            !.flag_map =
                [x \in (DOMAIN @) \cup { aliases[i] : i \in 1..Len(aliases) } |->
                    IF \E i \in 1..Len(aliases) : aliases[i] = x
                    THEN base + first(x) - 1
                    ELSE @[x]]]

flag(self, name) ==
    LET flags == Append(self.flags, [count |-> 0])
        index == Len(flags) - 1
    IN  [self EXCEPT !.flags = flags,
                     !.flag_map = insert_all(@, split_whitespace(name), index)]

command(self, name, cmd_parser) ==
    LET commands == Append(self.commands, cmd_parser)
        index    == Len(commands) - 1
    IN  [self EXCEPT !.cmd_help = IF cmd_parser.helptext # None THEN TRUE ELSE @,
                     !.commands = commands,
                     !.command_map = insert_all(@, split_whitespace(name), index)]

\* The help command can be switched on, never off.
enable_help_command_on_only(self, enable) ==
    [self EXCEPT !.cmd_help = @ \/ enable]

enable_help_command(self, enable) == [self EXCEPT !.cmd_help = enable]

\* f is the name of the registered function.
callback(self, f) == [self EXCEPT !.callback = Some(f)]

(***************************************************************************)
(* The query methods.  A panic is the value Panic.                         *)
(***************************************************************************)
Panic == [panic |-> TRUE]

\* The accessor f reaches its panic!: the name is in none of the maps it
\* looks in.
Panics(f, self, name) ==
    IF f \in {"value", "values"}
    THEN ~contains_key(self.option_map, name)
    ELSE /\ ~contains_key(self.flag_map, name)
         /\ ~contains_key(self.option_map, name)

\* The message of the panic! an accessor ends in; found panics in count.
PanicMessage(f, name) ==
    IF f \in {"value", "values"}
    THEN [fmt |-> "'{}' is not a registered option name", args |-> <<name>>]
    ELSE [fmt |-> "'{}' is not a registered flag or option name",
          args |-> <<name>>]

\* The line of lib.rs the panic! of accessor f is on; found panics in count.
PanicLine(f) ==
    CASE f = "value"  -> 259
      [] f = "values" -> 269
      [] f = "count"  -> 282
      [] f = "found"  -> 282

\* The grave accent, U+0060, which a string of this module cannot hold.
GraveAccent == "U+0060"

\* What the default panic hook writes to stderr, line by line: an empty
\* line, the thread (its name and its id, written "pid" here) and the
\* place of the panic!, the message, and the note on backtraces (the first
\* panic of a process run without RUST_BACKTRACE).
PanicHook(f, name) ==
    << [fmt |-> "", args |-> <<>>],
       [fmt  |-> "thread '{}' ({}) panicked at {}:{}:{}:",
        args |-> <<"main", "pid", "src/lib.rs", PanicLine(f), 9>>],
       PanicMessage(f, name),
       [fmt  |-> "note: run with {}RUST_BACKTRACE=1{} environment variable "
                    \o "to display a backtrace",
        args |-> <<GraveAccent, GraveAccent>>] >>

\* A panic the caller does not catch: the hook writes to stderr and the
\* process ends with status 101.  One it catches (catch_unwind) leaves the
\* hook's lines on stderr and the process running.
Panicked(f, name, caught) ==
    [stdout |-> <<>>, stderr |-> PanicHook(f, name),
     exit |-> IF caught THEN None ELSE Some(101)]

\* An option with no value has the empty string for its value.
value_no_default(self, name) ==
    IF contains_key(self.option_map, name)
    THEN LET opt == At(self.options, self.option_map[name])
         IN  IF opt.values # <<>> THEN opt.values[Len(opt.values)]
             ELSE <<>>
    ELSE Panic

value(self, name) ==
    IF contains_key(self.option_map, name)
    THEN LET opt == At(self.options, self.option_map[name])
         IN  IF opt.values # <<>> THEN opt.values[Len(opt.values)]
             ELSE opt.default
    ELSE Panic

\* A flag's name has no values rather than being an error.
values_empty_for_flag(self, name) ==
    IF contains_key(self.option_map, name)
    THEN At(self.options, self.option_map[name]).values
    ELSE IF contains_key(self.flag_map, name) THEN <<>>
    ELSE Panic

values(self, name) ==
    IF contains_key(self.option_map, name)
    THEN At(self.options, self.option_map[name]).values
    ELSE Panic

count(self, name) ==
    IF contains_key(self.flag_map, name)
    THEN At(self.flags, self.flag_map[name]).count
    ELSE IF contains_key(self.option_map, name)
    THEN Len(At(self.options, self.option_map[name]).values)
    ELSE Panic

found(self, name) ==
    IF contains_key(self.flag_map, name) \/ contains_key(self.option_map, name)
    THEN count(self, name) > 0
    ELSE Panic

(***************************************************************************)
(* ArgStream                                                               *)
(***************************************************************************)
ArgStreamNew(args) == [args |-> args, index |-> 0]

has_next(s) == s.index < Len(s.args)

\* next: the stream with the cursor advanced, and the element it passed.
\* Indexing past the end of the vector panics.
next(s) ==
    [ argstream |-> [s EXCEPT !.index = @ + 1],
      value     |-> IF s.index < Len(s.args) THEN s.args[s.index + 1] ELSE Panic ]

(***************************************************************************)
(* Error values, and what a handler leaves behind.                         *)
(*                                                                         *)
(* format!(fmt, args...) is kept as the format string and its arguments.   *)
(* A handler's outcome is the parser and the stream as it leaves them, its *)
(* Result (kind "Exit" when it ended the process instead of returning),    *)
(* and what it did to the process: the lines printed to stdout and to      *)
(* stderr and the exit status.                                             *)
(***************************************************************************)
format(fmt, args) == [fmt |-> fmt, args |-> args]

NoMsg == format("", <<>>)

Ok == [kind |-> "Ok", msg |-> NoMsg]

InvalidName(msg) == [kind |-> "InvalidName", msg |-> msg]

MissingValue(msg) == [kind |-> "MissingValue", msg |-> msg]

MissingHelpArg == [kind |-> "MissingHelpArg", msg |-> NoMsg]

InvalidUnicode == [kind |-> "InvalidUnicode", msg |-> NoMsg]

Exited == [kind |-> "Exit", msg |-> NoMsg]

NoIo == [stdout |-> <<>>, stderr |-> <<>>, exit |-> None]

\* println!("{}", text); std::process::exit(0);
PrintAndExit(text) == [stdout |-> <<text>>, stderr |-> <<>>, exit |-> Some(0)]

\* impl fmt::Display for Error
Display(self) ==
    CASE self.kind = "InvalidName"    -> format("Error: {}", <<self.msg>>)
      [] self.kind = "MissingValue"   -> format("Error: {}", <<self.msg>>)
      [] self.kind = "MissingHelpArg" ->
            format("Error: missing argument for the help command", <<>>)
      [] self.kind = "InvalidUnicode" ->
            format("Error: arguments are not valid unicode strings", <<>>)

\* Error::exit: eprintln!("{}.", self); std::process::exit(1);
exit(self) ==
    [stdout |-> <<>>, stderr |-> <<format("{}.", <<Display(self)>>)>>,
     exit |-> Some(1)]

Returns(self, argstream, res) ==
    [self |-> self, argstream |-> argstream, res |-> res, io |-> NoIo]

Exits(self, argstream, text) ==
    [self |-> self, argstream |-> argstream, res |-> Exited,
     io |-> PrintAndExit(text)]

\* The flag is set, not counted.
inc_flag_set(self, index) ==
    [self EXCEPT !.flags[index + 1].count = 1]

\* self.flags[index].count += 1
inc_flag(self, index) ==
    [self EXCEPT !.flags[index + 1].count = @ + 1]

\* The value takes the place of the ones before it.
push_value_overwrite(self, index, v) ==
    [self EXCEPT !.options[index + 1].values = <<v>>]

\* The value is put in front of the list.
push_value_front(self, index, v) ==
    [self EXCEPT !.options[index + 1].values = <<v>> \o @]

\* self.options[index].values.push(v)
push_value(self, index, v) ==
    [self EXCEPT !.options[index + 1].values = Append(@, v)]

\* The argument is put in front of the list.
push_arg_front(self, arg) == [self EXCEPT !.args = <<arg>> \o @]

\* self.args.push(arg)
push_arg(self, arg) == [self EXCEPT !.args = Append(@, arg)]

DASH == "-"

EQUALS == "="

DashDash == <<DASH, DASH>>

HelpFlag == <<DASH, DASH, "h", "e", "l", "p">>

VersionFlag == <<DASH, DASH, "v", "e", "r", "s", "i", "o", "n">>

HelpWord == <<"h", "e", "l", "p">>

\* The value is taken without asking has_next.
handle_long_opt_unguarded(self, arg, argstream) ==
    LET key == slice_from(arg, 2)
    IN  IF contains_key(self.flag_map, key)
        THEN Returns(inc_flag(self, self.flag_map[key]), argstream, Ok)
        ELSE IF contains_key(self.option_map, key)
        THEN LET n == next(argstream)
             IN  Returns(push_value(self, self.option_map[key], n.value),
                         n.argstream, Ok)
        ELSE IF arg = HelpFlag /\ self.helptext # None
        THEN Exits(self, argstream, trim(self.helptext[1]))
        ELSE IF arg = VersionFlag /\ self.version # None
        THEN Exits(self, argstream, trim(self.version[1]))
        ELSE Returns(self, argstream,
                     InvalidName(format("{} is not a recognised flag or option name",
                                        <<arg>>)))

\* A next token that begins with a dash is not taken as the value.
handle_long_opt_no_dash_value(self, arg, argstream) ==
    LET key == slice_from(arg, 2)
    IN  IF contains_key(self.flag_map, key)
        THEN Returns(inc_flag(self, self.flag_map[key]), argstream, Ok)
        ELSE IF contains_key(self.option_map, key)
        THEN IF has_next(argstream) /\ ~starts_with(next(argstream).value, <<DASH>>)
             THEN LET n == next(argstream)
                  IN  Returns(push_value(self, self.option_map[key], n.value),
                              n.argstream, Ok)
             ELSE Returns(self, argstream,
                          MissingValue(format("missing value for {}", <<arg>>)))
        ELSE IF arg = HelpFlag /\ self.helptext # None
        THEN Exits(self, argstream, trim(self.helptext[1]))
        ELSE IF arg = VersionFlag /\ self.version # None
        THEN Exits(self, argstream, trim(self.version[1]))
        ELSE Returns(self, argstream,
                     InvalidName(format("{} is not a recognised flag or option name",
                                        <<arg>>)))

\* --help and --version are tested before the registered names.
handle_long_opt_exit_first(self, arg, argstream) ==
    LET key == slice_from(arg, 2)
    IN  IF arg = HelpFlag /\ self.helptext # None
        THEN Exits(self, argstream, trim(self.helptext[1]))
        ELSE IF arg = VersionFlag /\ self.version # None
        THEN Exits(self, argstream, trim(self.version[1]))
        ELSE IF contains_key(self.flag_map, key)
        THEN Returns(inc_flag(self, self.flag_map[key]), argstream, Ok)
        ELSE IF contains_key(self.option_map, key)
        THEN IF has_next(argstream)
             THEN LET n == next(argstream)
                  IN  Returns(push_value(self, self.option_map[key], n.value),
                              n.argstream, Ok)
             ELSE Returns(self, argstream,
                          MissingValue(format("missing value for {}", <<arg>>)))
        ELSE Returns(self, argstream,
                     InvalidName(format("{} is not a recognised flag or option name",
                                        <<arg>>)))

handle_long_opt(self, arg, argstream) ==
    LET key == slice_from(arg, 2)
    IN  IF contains_key(self.flag_map, key)
        THEN Returns(inc_flag(self, self.flag_map[key]), argstream, Ok)
        ELSE IF contains_key(self.option_map, key)
        THEN IF has_next(argstream)
             THEN LET n == next(argstream)
                  IN  Returns(push_value(self, self.option_map[key], n.value),
                              n.argstream, Ok)
             ELSE Returns(self, argstream,
                          MissingValue(format("missing value for {}", <<arg>>)))
        ELSE IF arg = HelpFlag /\ self.helptext # None
        THEN Exits(self, argstream, trim(self.helptext[1]))
        ELSE IF arg = VersionFlag /\ self.version # None
        THEN Exits(self, argstream, trim(self.version[1]))
        ELSE Returns(self, argstream,
                     InvalidName(format("{} is not a recognised flag or option name",
                                        <<arg>>)))

\* The loop of handle_short_opt from the i-th character of arg on.
RECURSIVE handle_short_from(_, _, _, _)
handle_short_from(self, arg, argstream, i) ==
    IF i > Len(arg) THEN Returns(self, argstream, Ok)
    ELSE
    LET c == arg[i]
    IN  IF contains_key(self.flag_map, <<c>>)
        THEN handle_short_from(inc_flag(self, self.flag_map[<<c>>]), arg,
                               argstream, i + 1)
        ELSE IF contains_key(self.option_map, <<c>>)
        THEN IF has_next(argstream)
             THEN LET n == next(argstream)
                  IN  handle_short_from(
                          push_value(self, self.option_map[<<c>>], n.value),
                          arg, n.argstream, i + 1)
             ELSE Returns(self, argstream,
                     MissingValue(
                        IF Len(arg) > 2
                        THEN format("missing value for '{}' in {}", <<(<<c>>), arg>>)
                        ELSE format("missing value for {}", <<arg>>)))
        ELSE IF c = "h" /\ self.helptext # None
        THEN Exits(self, argstream, trim(self.helptext[1]))
        ELSE IF c = "v" /\ self.version # None
        THEN Exits(self, argstream, trim(self.version[1]))
        ELSE Returns(self, argstream,
                InvalidName(
                   IF Len(arg) > 2
                   THEN format("'{}' in {} is not a recognised flag or option name",
                               <<(<<c>>), arg>>)
                   ELSE format("{} is not a recognised flag or option name",
                               <<arg>>)))

\* The characters are walked from the last to the first.
RECURSIVE Reversed(_)
Reversed(s) == IF s = <<>> THEN <<>> ELSE Append(Reversed(Tail(s)), Head(s))

handle_short_opt_backwards(self, arg, argstream) ==
    handle_short_from(self, <<Head(arg)>> \o Reversed(Tail(arg)), argstream, 2)

\* A cluster that fails leaves the parser as it found it.
handle_short_opt_rollback(self, arg, argstream) ==
    LET h == handle_short_from(self, arg, argstream, 2)
    IN  IF h.res.kind \in {"InvalidName", "MissingValue"}
        THEN Returns(self, h.argstream, h.res)
        ELSE h

\* for c in arg.chars().skip(1)
handle_short_opt(self, arg, argstream) ==
    handle_short_from(self, arg, argstream, 2)

\* The empty value is stored like any other.
handle_equals_opt_keeps_empty(self, arg) ==
    LET splits == splitn2(arg, EQUALS)
        name   == splits[1]
        val    == splits[2]
        key    == trim_start_matches(name, DASH)
    IN  IF contains_key(self.option_map, key)
        THEN [self |-> push_value(self, self.option_map[key], val),
              res  |-> Ok]
        ELSE [self |-> self,
              res  |-> InvalidName(format("{} is not a recognised option name",
                                          <<name>>))]

\* A key that names a flag is counted, its value dropped.
handle_equals_opt_counts_flag(self, arg) ==
    LET splits == splitn2(arg, EQUALS)
        name   == splits[1]
        val    == splits[2]
        key    == trim_start_matches(name, DASH)
    IN  IF contains_key(self.flag_map, key)
        THEN [self |-> inc_flag(self, self.flag_map[key]), res |-> Ok]
        ELSE IF contains_key(self.option_map, key)
        THEN IF val = <<>>
             THEN [self |-> self,
                   res  |-> MissingValue(format("missing value for {}", <<name>>))]
             ELSE [self |-> push_value(self, self.option_map[key], val),
                   res  |-> Ok]
        ELSE [self |-> self,
              res  |-> InvalidName(format("{} is not a recognised option name",
                                          <<name>>))]

\* Takes no stream: the outcome is the parser and the Result.
handle_equals_opt(self, arg) ==
    LET splits == splitn2(arg, EQUALS)
        name   == splits[1]
        val    == splits[2]
        key    == trim_start_matches(name, DASH)
    IN  IF contains_key(self.option_map, key)
        THEN IF val = <<>>
             THEN [self |-> self,
                   res  |-> MissingValue(format("missing value for {}", <<name>>))]
             ELSE [self |-> push_value(self, self.option_map[key], val),
                   res  |-> Ok]
        ELSE [self |-> self,
              res  |-> InvalidName(format("{} is not a recognised option name",
                                          <<name>>))]

\* The rest of the stream is left to the main loop.
push_rest_none(self, argstream) == Returns(self, argstream, Ok)

\* The body of the `arg == "--"` branch: every remaining token is pushed.
RECURSIVE push_rest(_, _)
push_rest(self, argstream) ==
    IF has_next(argstream)
    THEN LET n == next(argstream)
         IN  push_rest(push_arg(self, n.value), n.argstream)
    ELSE Returns(self, argstream, Ok)

\* With no argument, help is an ordinary positional.
handle_help_command_lenient(self, argstream) ==
    IF has_next(argstream)
    THEN LET n == next(argstream)
         IN  IF contains_key(self.command_map, n.value)
             THEN LET cmd_parser == At(self.commands, self.command_map[n.value])
                  IN  Exits(self, n.argstream,
                            trim(IF cmd_parser.helptext # None
                                 THEN cmd_parser.helptext[1] ELSE <<>>))
             ELSE Returns(self, n.argstream,
                     InvalidName(format("'{}' is not a recognised command name",
                                        <<n.value>>)))
    ELSE Returns(push_arg(self, HelpWord), argstream, Ok)

\* The body of the built-in help command branch.
handle_help_command(self, argstream) ==
    IF has_next(argstream)
    THEN LET n == next(argstream)
         IN  IF contains_key(self.command_map, n.value)
             THEN LET cmd_parser == At(self.commands, self.command_map[n.value])
                  IN  Exits(self, n.argstream,
                            trim(IF cmd_parser.helptext # None
                                 THEN cmd_parser.helptext[1] ELSE <<>>))
             ELSE Returns(self, n.argstream,
                     InvalidName(format("'{}' is not a recognised command name",
                                        <<n.value>>)))
    ELSE Returns(self, argstream, MissingHelpArg)

\* The chain without the test for a digit after the dash.
Classify_no_digit_test(self, arg, is_first_arg) ==
    IF arg = DashDash THEN "sentinel"
    ELSE IF starts_with(arg, DashDash)
    THEN IF contains(arg, EQUALS) THEN "long_equals" ELSE "long"
    ELSE IF starts_with(arg, <<DASH>>)
    THEN IF arg = <<DASH>> THEN "dash_positional"
         ELSE IF contains(arg, EQUALS) THEN "short_equals"
         ELSE "short"
    ELSE IF is_first_arg /\ contains_key(self.command_map, arg) THEN "command"
    ELSE IF is_first_arg /\ self.cmd_help /\ arg = HelpWord THEN "help"
    ELSE "positional"

\* The chain without the test of is_first_arg before a command.
Classify_any_position(self, arg, is_first_arg) ==
    IF arg = DashDash THEN "sentinel"
    ELSE IF starts_with(arg, DashDash)
    THEN IF contains(arg, EQUALS) THEN "long_equals" ELSE "long"
    ELSE IF starts_with(arg, <<DASH>>)
    THEN IF arg = <<DASH>> \/ is_numeric(arg[2]) THEN "dash_positional"
         ELSE IF contains(arg, EQUALS) THEN "short_equals"
         ELSE "short"
    ELSE IF contains_key(self.command_map, arg) THEN "command"
    ELSE IF is_first_arg /\ self.cmd_help /\ arg = HelpWord THEN "help"
    ELSE "positional"

\* The branch of parse_argstream's if-else chain that takes arg.
Classify(self, arg, is_first_arg) ==
    IF arg = DashDash THEN "sentinel"
    ELSE IF starts_with(arg, DashDash)
    THEN IF contains(arg, EQUALS) THEN "long_equals" ELSE "long"
    ELSE IF starts_with(arg, <<DASH>>)
    THEN IF arg = <<DASH>> \/ is_numeric(arg[2]) THEN "dash_positional"
         ELSE IF contains(arg, EQUALS) THEN "short_equals"
         ELSE "short"
    ELSE IF is_first_arg /\ contains_key(self.command_map, arg) THEN "command"
    ELSE IF is_first_arg /\ self.cmd_help /\ arg = HelpWord THEN "help"
    ELSE "positional"

(***************************************************************************)
(* The registrations and the inputs the model is run on.                   *)
(***************************************************************************)
\* The longest input vector.
MaxLen == 3

SubSubParser ==
    callback(flag(new, <<"x">>), "cb_sub")

\* Its own command has no help text: the help command is switched on by
\* hand.
SubParser ==
    enable_help_command(
        command(
            callback(
                option(flag(helptext(new, <<"S", "\n">>), <<"x">>),
                       <<"o", "p", "t", " ", "o">>, <<"e">>),
                "cb_cmd"),
            <<"s", "u", "b">>, SubSubParser),
        TRUE)

\* Flags, options, help and version text, and nested commands; one alias of
\* the command is a dash and a digit.
AppParser ==
    command(
        option(
            flag(version(helptext(new, <<"\t", "H">>), <<"1">>),
                 <<"f", "l", "a", "g", " ", "f">>),
            <<"o", "p", "t", " ", "o">>, <<"d">>),
        <<"c", "m", "d", " ", "c", " ", "-", "1">>, SubParser)

\* The names help, h, version and v registered, with help and version text
\* set: help and h name a flag, version and v an option, and h names the
\* option as well.
ShadowParser ==
    option(
        flag(version(helptext(new, <<"H">>), <<"1">>),
             <<"f", "l", "a", "g", " ", "f", " ", "h", " ", "h", "e", "l", "p">>),
        <<"o", "p", "t", " ", "o", " ", "v", " ",
          "v", "e", "r", "s", "i", "o", "n", " ", "h">>, <<"d">>)

\* A command with no callback.
PlainParser == flag(new, <<"y">>)

\* No help or version text; two commands, one of them also under an alias
\* that begins with a dash; the help command switched off.
BareParser ==
    enable_help_command(
        command(
            command(option(flag(new, <<"f">>), <<"o">>, <<>>),
                    <<"c", "m", "d", "\t", "-", "x">>, SubParser),
            <<"s", "u", "b">>, PlainParser),
        FALSE)

\* Nothing registered.
EmptyParser == new

Parsers == {AppParser, ShadowParser, BareParser, EmptyParser}

Tokens ==
    { <<"-", "-">>,
      <<"-", "-", "f", "l", "a", "g">>,
      <<"-", "f", "f">>,
      <<"-", "o", "f", "o">>,
      <<"-", "f", "z">>,
      <<"-", "-", "o", "p", "t">>,
      <<"-", "o">>,
      <<"-", "-", "o", "p", "t", "=", "v">>,
      <<"-", "-", "o", "p", "t", "=">>,
      <<"-", "o", "=", "w">>,
      <<"-", "-", "f", "l", "a", "g", "=", "v">>,
      <<"-">>,
      <<"-", "1">>,
      <<"c", "m", "d">>,
      <<"s", "u", "b">>,
      <<"h", "e", "l", "p">>,
      <<"-", "-", "h", "e", "l", "p">>,
      <<"-", "-", "v", "e", "r", "s", "i", "o", "n">>,
      <<"-", "h">>,
      <<"-", "v">>,
      <<"v">>,
      <<"-", "x">> }

\* The sequences over S of length at most n.
SeqsUpTo(S, n) == UNION { [1..k -> S] : k \in 0..n }

(***************************************************************************)
(* The state: one run of parse_vec.                                        *)
(*                                                                         *)
(* stack      the active calls of parse_argstream, outermost first; each   *)
(*            holds the call's self, its is_first_arg, and (across a       *)
(*            recursive call) the local arg holding the command token      *)
(* argstream  the one ArgStream all the calls share                        *)
(* result     what parse_vec or parse has returned: kind "Running" until   *)
(*            it does ("Entered" while parse has not yet converted the     *)
(*            arguments), "Exit" when the process ended instead            *)
(* calls      the callback invocations so far, in order                    *)
(* process    the lines printed to stdout and to stderr, and the exit      *)
(*            status                                                       *)
(* taken      one entry per call to ArgStream::next, in order: the call    *)
(*            site and the depth of the parse_argstream call that made it  *)
(* built      the parser as the builder left it                            *)
(* answer     what the accessor called on the parser after parse returned *)
(*            has returned, None while none was called                     *)
(***************************************************************************)
VARIABLES stack, argstream, result, calls, process, taken, built, answer

vars == <<stack, argstream, result, calls, process, taken, built, answer>>

Running == [kind |-> "Running", msg |-> NoMsg]

\* parse has been called and has not yet converted the arguments.
Entered == [kind |-> "Entered", msg |-> NoMsg]

Frame(self) == [self |-> self, is_first_arg |-> TRUE, arg |-> None]

Depth == Len(stack)

Top == stack[Depth]

\* The parser parse_vec was called on.
Root == stack[1].self

Init ==
    /\ built \in Parsers
    /\ stack = <<Frame(built)>>
    /\ argstream \in { ArgStreamNew(a) : a \in SeqsUpTo(Tokens, MaxLen) }
    /\ result = Running
    /\ calls = <<>>
    /\ process = NoIo
    /\ taken = <<>>
    /\ answer = None

\* The loop head's `let arg = argstream.next()`.
Arg == next(argstream).value

AfterArg == next(argstream).argstream

\* The loop is at its head with a token to read, on the branch named.
AtBranch(branch) ==
    /\ result = Running
    /\ has_next(argstream)
    /\ Classify(Top.self, Arg, Top.is_first_arg) = branch

\* The entries of taken for n calls to next made at one site; keys[i] is the
\* name the i-th value was looked up under (None where the site takes no value
\* for an option).
Site(site, n, keys) ==
    [i \in 1..n |-> [site  |-> site,
                     depth |-> Depth,
                     key   |-> IF i <= Len(keys) THEN Some(keys[i]) ELSE None]]

\* The characters of a short cluster that name an option and no flag, in order:
\* the names under which handle_short_opt takes its values.
RECURSIVE OptionChars(_, _, _)
OptionChars(self, arg, i) ==
    IF i > Len(arg) THEN <<>>
    ELSE IF /\ ~contains_key(self.flag_map, <<arg[i]>>)
            /\ contains_key(self.option_map, <<arg[i]>>)
         THEN <<(<<arg[i]>>)>> \o OptionChars(self, arg, i + 1)
         ELSE OptionChars(self, arg, i + 1)

\* The command is recorded although its parse failed.
Iterate_records_command(h, site, keys) ==
    /\ stack' = [i \in 1..Depth |->
                    IF i = Depth
                    THEN [stack[i] EXCEPT
                            !.self = h.self,
                            !.is_first_arg = IF h.res = Ok THEN FALSE ELSE @]
                    ELSE IF h.res \in {Ok, Exited} THEN stack[i]
                    ELSE [stack[i] EXCEPT !.self.cmd_name = stack[i].arg]]
    /\ argstream' = h.argstream
    /\ result' = IF h.res = Ok THEN Running ELSE h.res
    /\ process' = [stdout |-> process.stdout \o h.io.stdout,
                   stderr |-> process.stderr \o h.io.stderr,
                   exit   |-> h.io.exit]
    /\ taken' = taken \o Site("loop", 1, <<>>)
                      \o Site(site, h.argstream.index - AfterArg.index, keys)
    /\ UNCHANGED <<calls, built, answer>>

\* The end of one iteration whose handler left outcome h, having made
\* its calls to next at the site named: on Ok the loop goes on with
\* is_first_arg cleared, on Err the error is returned through every
\* active call, on exit the process ends.
Iterate(h, site, keys) ==
    /\ stack' = [stack EXCEPT ![Depth] =
                    [@ EXCEPT !.self = h.self,
                              !.is_first_arg = IF h.res = Ok THEN FALSE ELSE @]]
    /\ argstream' = h.argstream
    /\ result' = IF h.res = Ok THEN Running ELSE h.res
    /\ process' = [stdout |-> process.stdout \o h.io.stdout,
                   stderr |-> process.stderr \o h.io.stderr,
                   exit   |-> h.io.exit]
    /\ taken' = taken \o Site("loop", 1, <<>>)
                      \o Site(site, h.argstream.index - AfterArg.index, keys)
    /\ UNCHANGED <<calls, built, answer>>

Sentinel ==
    /\ AtBranch("sentinel")
    /\ Iterate(push_rest(Top.self, AfterArg), "rest", <<>>)

LongEquals ==
    /\ AtBranch("long_equals")
    /\ LET h == handle_equals_opt(Top.self, Arg)
       IN  Iterate(Returns(h.self, AfterArg, h.res), "none", <<>>)

LongOpt ==
    /\ AtBranch("long")
    /\ Iterate(handle_long_opt(Top.self, Arg, AfterArg), "long_value",
               <<slice_from(Arg, 2)>>)

DashPositional ==
    /\ AtBranch("dash_positional")
    /\ Iterate(Returns(push_arg(Top.self, Arg), AfterArg, Ok), "none", <<>>)

ShortEquals ==
    /\ AtBranch("short_equals")
    /\ LET h == handle_equals_opt(Top.self, Arg)
       IN  Iterate(Returns(h.self, AfterArg, h.res), "none", <<>>)

ShortOpt ==
    /\ AtBranch("short")
    /\ Iterate(handle_short_opt(Top.self, Arg, AfterArg), "short_value",
               OptionChars(Top.self, Arg, 2))

HelpCommand ==
    /\ AtBranch("help")
    /\ Iterate(handle_help_command(Top.self, AfterArg), "help_arg", <<>>)

Positional ==
    /\ AtBranch("positional")
    /\ Iterate(Returns(push_arg(Top.self, Arg), AfterArg, Ok), "none", <<>>)

\* The callback is run before the command's arguments are parsed.
CommandCall_calls_first ==
    /\ AtBranch("command")
    /\ LET index      == Top.self.command_map[Arg]
           cmd_parser == At(Top.self.commands, index)
       IN  /\ stack' = Append(
                [stack EXCEPT ![Depth] =
                    [@ EXCEPT !.self = [@ EXCEPT !.command_map = HashMapNew,
                                                 !.commands = <<>>],
                              !.arg = Some(Arg)]],
                Frame(cmd_parser))
           /\ calls' = IF cmd_parser.callback # None
                       THEN Append(calls, [f      |-> cmd_parser.callback[1],
                                           name   |-> Arg,
                                           parser |-> cmd_parser])
                       ELSE calls
    /\ argstream' = AfterArg
    /\ taken' = taken \o Site("loop", 1, <<>>)
    /\ UNCHANGED <<result, process, built, answer>>

\* The command's parser starts on the command token itself.
CommandCall_keeps_token ==
    /\ AtBranch("command")
    /\ LET index      == Top.self.command_map[Arg]
           cmd_parser == At(Top.self.commands, index)
       IN  stack' = Append(
                [stack EXCEPT ![Depth] =
                    [@ EXCEPT !.self = [@ EXCEPT !.command_map = HashMapNew,
                                                 !.commands = <<>>],
                              !.arg = Some(Arg)]],
                Frame(cmd_parser))
    /\ UNCHANGED <<argstream, taken, result, calls, process, built, answer>>

\* The command branch up to and into the recursive call: the command's
\* parser is taken out of self, whose commands are cleared.
CommandCall ==
    /\ AtBranch("command")
    /\ LET index      == Top.self.command_map[Arg]
           cmd_parser == At(Top.self.commands, index)
       IN  stack' = Append(
                [stack EXCEPT ![Depth] =
                    [@ EXCEPT !.self = [@ EXCEPT !.command_map = HashMapNew,
                                                 !.commands = <<>>],
                              !.arg = Some(Arg)]],
                Frame(cmd_parser))
    /\ argstream' = AfterArg
    /\ taken' = taken \o Site("loop", 1, <<>>)
    /\ UNCHANGED <<result, calls, process, built, answer>>

\* The caller records the command's name and drops its parser.
CommandReturn_name_only ==
    /\ result = Running
    /\ ~has_next(argstream)
    /\ Depth > 1
    /\ LET cmd_parser == Top.self
           caller     == stack[Depth - 1]
           arg        == caller.arg[1]
       IN  /\ calls' = IF cmd_parser.callback # None
                       THEN Append(calls, [f      |-> cmd_parser.callback[1],
                                           name   |-> arg,
                                           parser |-> cmd_parser])
                       ELSE calls
           /\ stack' = [SubSeq(stack, 1, Depth - 1) EXCEPT ![Depth - 1] =
                    [@ EXCEPT !.self = [@ EXCEPT !.cmd_name = Some(arg)],
                              !.is_first_arg = FALSE,
                              !.arg = None]]
    /\ UNCHANGED <<argstream, result, process, taken, built, answer>>

\* The recursive call's loop ends and it returns Ok: the caller runs the
\* callback, records the command and goes on with its own loop.
CommandReturn ==
    /\ result = Running
    /\ ~has_next(argstream)
    /\ Depth > 1
    /\ LET cmd_parser == Top.self
           caller     == stack[Depth - 1]
           arg        == caller.arg[1]
       IN  /\ calls' = IF cmd_parser.callback # None
                       THEN Append(calls, [f      |-> cmd_parser.callback[1],
                                           name   |-> arg,
                                           parser |-> cmd_parser])
                       ELSE calls
           /\ stack' = [SubSeq(stack, 1, Depth - 1) EXCEPT ![Depth - 1] =
                    [@ EXCEPT !.self = [@ EXCEPT !.cmd_name = Some(arg),
                                                 !.cmd_parser = Some(cmd_parser)],
                              !.is_first_arg = FALSE,
                              !.arg = None]]
    /\ UNCHANGED <<argstream, result, process, taken, built, answer>>

\* The outermost loop ends: parse_vec returns Ok(()).
ParseReturn ==
    /\ result = Running
    /\ ~has_next(argstream)
    /\ Depth = 1
    /\ result' = Ok
    /\ UNCHANGED <<stack, argstream, calls, process, taken, built, answer>>

Next ==
    \/ Sentinel
    \/ LongEquals
    \/ LongOpt
    \/ DashPositional
    \/ ShortEquals
    \/ ShortOpt
    \/ CommandCall
    \/ CommandReturn
    \/ HelpCommand
    \/ Positional
    \/ ParseReturn

Spec == Init /\ [][Next]_vars

\* The registrations and tokens of the runs followed to their end: one token
\* for every branch of the loop, with and without a command to descend into.
FairParsers == {AppParser, BareParser}

FairTokens ==
    { <<"-", "-">>,
      <<"-", "-", "o", "p", "t">>,
      <<"-", "-", "o", "p", "t", "=", "v">>,
      <<"-", "f", "f">>,
      <<"-", "o", "=", "w">>,
      <<"-">>,
      <<"c", "m", "d">>,
      <<"s", "u", "b">>,
      <<"h", "e", "l", "p">>,
      <<"v">> }

FairInit ==
    /\ built \in FairParsers
    /\ stack = <<Frame(built)>>
    /\ argstream \in { ArgStreamNew(a) : a \in SeqsUpTo(FairTokens, MaxLen) }
    /\ result = Running
    /\ calls = <<>>
    /\ process = NoIo
    /\ taken = <<>>
    /\ answer = None

\* parse_vec runs on one thread that nothing suspends: a step that can be
\* taken is taken.
FairSpec == FairInit /\ [][Next]_vars /\ WF_vars(Next)

(***************************************************************************)
(* What the claims are stated with.                                        *)
(***************************************************************************)
Input == argstream.args

\* parse_vec, or parse, has returned, with Ok or with an error.
Returned == result.kind \notin {"Entered", "Running", "Exit"}

Failed ==
    result.kind \in {"InvalidName", "MissingValue", "MissingHelpArg",
                     "InvalidUnicode"}

\* The parser of the call at depth d: the call's self while the call is
\* active, and the cmd_parser it was stored as once it has returned.
RECURSIVE Nested(_, _)
Nested(self, n) ==
    IF n = 0 THEN self ELSE Nested(self.cmd_parser[1], n - 1)

RECURSIVE NestedDepth(_)
NestedDepth(self) ==
    IF self.cmd_parser = None THEN 0 ELSE 1 + NestedDepth(self.cmd_parser[1])

Levels == 1..(Depth + NestedDepth(Top.self))

LevelParser(d) ==
    IF d <= Depth THEN stack[d].self ELSE Nested(Top.self, d - Depth)

(***************************************************************************)
(* The caller: parse in place of parse_vec, on the arguments of the        *)
(* process; once either has returned Ok or Err, one call of value, values, *)
(* count or found, on the parser or on a stored command parser, taking     *)
(* &self (a panic is the outcome Panic); and, on Err, the call of          *)
(* Error::exit that ends the process.                                      *)
(***************************************************************************)
\* A unit of an OsString that is part of no valid encoding of a character.
NotUnicode == "0xFF"

\* OsString::into_string succeeds.
is_unicode(os_string) ==
    \A i \in 1..Len(os_string) : os_string[i] # NotUnicode

\* The arguments of the process, std::env::args_os().skip(1): the tokens,
\* and two that are not Unicode.
OsTokens == Tokens \cup { <<NotUnicode>>,
                          <<"-", "-", "o", "p", "t", "=", NotUnicode>> }

\* parse is called: until it has converted them, argstream.args holds the
\* arguments of the process.
InitAccess ==
    /\ built \in Parsers
    /\ stack = <<Frame(built)>>
    /\ argstream \in { ArgStreamNew(a) : a \in SeqsUpTo(OsTokens, MaxLen) }
    /\ result = Entered
    /\ calls = <<>>
    /\ process = NoIo
    /\ taken = <<>>
    /\ answer = None

\* parse up to its call of parse_argstream: Err(InvalidUnicode) when an
\* argument is not Unicode, else the stream is built from the strings.
parse ==
    /\ result = Entered
    /\ result' = IF \A i \in 1..Len(argstream.args) :
                        is_unicode(argstream.args[i])
                 THEN Running
                 ELSE InvalidUnicode
    /\ UNCHANGED <<stack, argstream, calls, process, taken, built, answer>>

\* The parsers the caller holds once parse has returned: the one it called
\* parse on and the command parsers stored below it.
Held == 1..(1 + NestedDepth(Root))

\* The longest input after which the accessors are called.
MaxQueried == 1

Accessors == {"value", "values", "count", "found"}

\* The names asked for: a flag's, an option's, one that is both or neither
\* (h), and one never registered (z).
Names == { <<"f">>, <<"f", "l", "a", "g">>, <<"o">>, <<"o", "p", "t">>,
           <<"h">>, <<"z">> }

Call(f, self, name) ==
    CASE f = "value"  -> value(self, name)
      [] f = "values" -> values(self, name)
      [] f = "count"  -> count(self, name)
      [] f = "found"  -> found(self, name)

Query ==
    /\ Returned
    /\ process.exit = None
    /\ Len(argstream.args) <= MaxQueried
    /\ answer = None
    /\ \E f \in Accessors, name \in Names, d \in Held, caught \in BOOLEAN :
          LET io == IF Panics(f, LevelParser(d), name)
                    THEN Panicked(f, name, caught)
                    ELSE NoIo
          IN  /\ answer' = Some([f |-> f, name |-> name, depth |-> d,
                                 out |-> Call(f, LevelParser(d), name)])
              /\ process' = [stdout |-> process.stdout \o io.stdout,
                             stderr |-> process.stderr \o io.stderr,
                             exit   |-> io.exit]
    /\ UNCHANGED <<stack, argstream, result, calls, taken, built>>

\* `if let Err(err) = parser.parse() { err.exit(); }`
ErrorExit ==
    /\ Failed
    /\ process.exit = None
    /\ LET io == exit(result)
       IN  process' = [stdout |-> process.stdout \o io.stdout,
                       stderr |-> process.stderr \o io.stderr,
                       exit   |-> io.exit]
    /\ UNCHANGED <<stack, argstream, result, calls, taken, built, answer>>

NextAccess ==
    \/ parse
    \/ Sentinel
    \/ LongEquals
    \/ LongOpt
    \/ DashPositional
    \/ ShortEquals
    \/ ShortOpt
    \/ CommandCall
    \/ CommandReturn
    \/ HelpCommand
    \/ Positional
    \/ ParseReturn
    \/ Query
    \/ ErrorExit

SpecAccess == InitAccess /\ [][NextAccess]_vars

\* The input positions the loop of the call at depth d read as its tokens.
LoopReads(d) ==
    { i \in 1..Len(taken) : taken[i].site = "loop" /\ taken[i].depth = d }

\* A long token --key, and a short cluster -abc, as the input dialect
\* writes them.
IsLongToken(t) ==
    starts_with(t, DashDash) /\ t # DashDash /\ ~contains(t, EQUALS)

IsShortCluster(t) ==
    /\ Len(t) >= 2
    /\ t[1] = DASH
    /\ t[2] # DASH
    /\ ~is_numeric(t[2])
    /\ ~contains(t, EQUALS)

\* A token of the form name=value.
IsEqualsToken(t) ==
    /\ Len(t) >= 2
    /\ t[1] = DASH
    /\ ~is_numeric(t[2])
    /\ contains(t, EQUALS)

\* A lone dash, or a dash followed by a digit.
IsDashOrNumber(t) ==
    t = <<DASH>> \/ (Len(t) >= 2 /\ t[1] = DASH /\ is_numeric(t[2]))

\* The aliases registered with alias a in a map: the keys of its entry.
AliasesOf(map, a) == { b \in DOMAIN map : map[b] = map[a] }

\* How often token t names one of the aliases A: once as --alias, and once
\* for every character of -abc that is an alias.
Hits(t, A) ==
    IF starts_with(t, DashDash)
    THEN IF slice_from(t, 2) \in A THEN 1 ELSE 0
    ELSE IF starts_with(t, <<DASH>>)
    THEN Cardinality({ i \in 2..Len(t) : <<t[i]>> \in A })
    ELSE 0

\* The sum of f over the positions 1..n that are in I.
RECURSIVE SumHits(_, _, _)
SumHits(A, I, n) ==
    IF n = 0 THEN 0
    ELSE SumHits(A, I, n - 1) + (IF n \in I THEN Hits(Input[n], A) ELSE 0)

(***************************************************************************)
(* C1 as stated: for every registered flag and every input, after parse    *)
(* count(f) is the number of occurrences of f's aliases in the input.      *)
(* Stated for the runs that return Ok.  Fails: [--, --flag] leaves         *)
(* count(flag) = 0.                                                        *)
(***************************************************************************)
C1_CountEqualsOccurrencesInInput ==
    result = Ok =>
        \A a \in DOMAIN Root.flag_map :
            count(Root, a) =
                SumHits(AliasesOf(Root.flag_map, a), 1..Len(Input), Len(Input))

(***************************************************************************)
(* C1 amended: when parse returns Ok, count(f) at every parser level is    *)
(* the number of occurrences of f's aliases among the tokens that level's  *)
(* loop read as long tokens or short clusters; tokens after --, tokens     *)
(* taken as an option's value and tokens read by another level are not     *)
(* counted.                                                                *)
(***************************************************************************)
C1_CountEqualsOccurrencesRead ==
    result = Ok =>
        \A d \in Levels :
            \A a \in DOMAIN LevelParser(d).flag_map :
                count(LevelParser(d), a) =
                    SumHits(AliasesOf(LevelParser(d).flag_map, a),
                            { i \in LoopReads(d) :
                                IsLongToken(Input[i]) \/ IsShortCluster(Input[i]) },
                            Len(Input))

\* flag "flag f", input [-ff, --flag, -ff]: count 5 under either alias
C1_Witness ==
    /\ result = Ok
    /\ built = AppParser
    /\ Input = << <<"-", "f", "f">>, <<"-", "-", "f", "l", "a", "g">>,
                  <<"-", "f", "f">> >>
    /\ count(Root, <<"f">>) = 5
    /\ found(Root, <<"f", "l", "a", "g">>) = TRUE

(***************************************************************************)
(* The values supplied to the option with aliases A at depth d, in input   *)
(* order, among the first n tokens taken: a token taken as the value of    *)
(* --alias or of a cluster character, and the text after the first = of a  *)
(* name=value token read by the loop.                                      *)
(***************************************************************************)
EqualsName(t) == trim_start_matches(splitn2(t, EQUALS)[1], DASH)

EqualsValue(t) == splitn2(t, EQUALS)[2]

RECURSIVE Supplied(_, _, _)
Supplied(d, A, n) ==
    IF n = 0 THEN <<>>
    ELSE Supplied(d, A, n - 1) \o
         (IF taken[n].depth # d THEN <<>>
          ELSE IF /\ taken[n].site \in {"long_value", "short_value"}
                  /\ taken[n].key # None
                  /\ taken[n].key[1] \in A
               THEN <<Input[n]>>
          ELSE IF /\ taken[n].site = "loop"
                  /\ IsEqualsToken(Input[n])
                  /\ EqualsName(Input[n]) \in A
                  /\ EqualsValue(Input[n]) # <<>>
               THEN <<EqualsValue(Input[n])>>
          ELSE <<>>)

(***************************************************************************)
(* C2: for every registered option, values(o) lists the values supplied,   *)
(* in input order, whichever of --opt v, -o v and name=v supplied them,    *)
(* and value(o) is the last element of values(o) when that is not empty.   *)
(***************************************************************************)
C2_ValuesInInputOrder ==
    \A d \in Levels :
        \A a \in DOMAIN LevelParser(d).option_map :
            LET self == LevelParser(d)
                vs   == values(self, a)
            IN  /\ vs = Supplied(d, AliasesOf(self.option_map, a), Len(taken))
                /\ vs # <<>> => value(self, a) = vs[Len(vs)]

\* option "opt o", input [-o=w, --opt, v]: values [w, v], value v
C2_Witness ==
    /\ result = Ok
    /\ built = AppParser
    /\ Input = << <<"-", "o", "=", "w">>, <<"-", "-", "o", "p", "t">>, <<"v">> >>
    /\ values(Root, <<"o">>) = << <<"w">>, <<"v">> >>
    /\ value(Root, <<"o", "p", "t">>) = <<"v">>

(***************************************************************************)
(* C3: once the loop of a parser reads --, every token after it is         *)
(* appended, as it is and in order, to that parser's positionals in the    *)
(* same step, with no flag count or option value changed and no error;     *)
(* and nothing but the returns happens afterwards.                         *)
(***************************************************************************)
SentinelRead ==
    \E i \in 1..Len(taken) : taken[i].site = "loop" /\ Input[i] = DashDash

C3_SentinelTakesTheRest ==
    [][ /\ (result = Running /\ has_next(argstream) /\ Arg = DashDash) =>
            /\ stack' = [stack EXCEPT
                    ![Depth] = [@ EXCEPT
                        !.self = [@ EXCEPT !.args =
                            @ \o SubSeq(Input, argstream.index + 2, Len(Input))],
                        !.is_first_arg = FALSE]]
            /\ argstream'.index = Len(Input)
            /\ result' = Running
        /\ SentinelRead =>
            /\ result'.kind \in {"Running", "Ok"}
            /\ argstream' = argstream
            /\ \A d \in Levels :
                  /\ LevelParser(d)'.args = LevelParser(d).args
                  /\ LevelParser(d)'.flags = LevelParser(d).flags
                  /\ LevelParser(d)'.options = LevelParser(d).options
      ]_vars

\* option "opt o", input [--opt=v, --, --opt=v]: values [v], args [--opt=v]
C3_Witness ==
    /\ result = Ok
    /\ built = AppParser
    /\ Input = << <<"-", "-", "o", "p", "t", "=", "v">>, DashDash,
                  <<"-", "-", "o", "p", "t", "=", "v">> >>
    /\ values(Root, <<"o", "p", "t">>) = << <<"v">> >>
    /\ Root.args = << <<"-", "-", "o", "p", "t", "=", "v">> >>

(***************************************************************************)
(* C4 as stated: for any input, every token that is - or starts with - and *)
(* a digit lands in positionals, and none causes BadName.  Fails: in       *)
(* [--opt, -1] the token -1 is stored as the value of opt, and [help, -1]  *)
(* returns InvalidName for -1.                                             *)
(***************************************************************************)
C4_DashTokensAlwaysPositional ==
    /\ result = Ok =>
          \A i \in 1..Len(Input) :
              IsDashOrNumber(Input[i]) =>
                  \E d \in Levels :
                      \E k \in 1..Len(LevelParser(d).args) :
                          LevelParser(d).args[k] = Input[i]
    /\ result.kind = "InvalidName" =>
          \A k \in 1..Len(result.msg.args) :
              ~IsDashOrNumber(result.msg.args[k])

(***************************************************************************)
(* C4 amended: every token that is - or starts with - and a digit and that *)
(* the loop of a parser reads is appended to that parser's positionals;    *)
(* the step looks nothing up, changes nothing else and raises no error.    *)
(* Such a token taken as the value of an option is appended to that        *)
(* option's values and not to the positionals.  Such a token taken as the  *)
(* argument of the help command is looked up as a command name and is not  *)
(* appended to the positionals: parse returns InvalidName for it unless it *)
(* is a registered command alias, and then that command's help text is     *)
(* printed and the process exits.                                          *)
(***************************************************************************)
C4_DashTokensReadArePositional ==
    [][ /\ (result = Running /\ has_next(argstream) /\ IsDashOrNumber(Arg)) =>
            /\ stack' = [stack EXCEPT
                    ![Depth] = [@ EXCEPT !.self = [@ EXCEPT !.args = Append(@, Arg)],
                                         !.is_first_arg = FALSE]]
            /\ argstream' = AfterArg
            /\ result' = Running
        /\ \A n \in (Len(taken) + 1)..Len(taken') :
              IsDashOrNumber(Input[n]) =>
                /\ taken'[n].site \in {"long_value", "short_value"} =>
                      LET key == taken'[n].key[1]
                      IN  /\ Depth' = Depth
                          /\ Top'.self.args = Top.self.args
                          /\ \E k \in (Len(values(Top.self, key)) + 1)
                                       ..Len(values(Top'.self, key)) :
                                values(Top'.self, key)[k] = Input[n]
                /\ taken'[n].site = "help_arg" =>
                      /\ stack' = stack
                      /\ IF contains_key(Top.self.command_map, Input[n])
                         THEN /\ result' = Exited
                              /\ process'.exit = Some(0)
                         ELSE /\ result' = InvalidName(
                                    format("'{}' is not a recognised command name",
                                           <<Input[n]>>))
                              /\ process' = process
      ]_vars

\* input [-, -1, v]: args [-, -1, v]
C4_Witness ==
    /\ result = Ok
    /\ Input = << <<"-">>, <<"-", "1">>, <<"v">> >>
    /\ Root.args = Input

(***************************************************************************)
(* C5 as stated: when the first token is a registered sub-command alias,   *)
(* parse records it as cmd_name.  Fails: with command "cmd", [cmd, -ff]    *)
(* returns InvalidName from the sub-command's parse and cmd_name is left   *)
(* unset.  (Stated for aliases that do not begin with a dash.)             *)
(***************************************************************************)
C5_FirstAliasRecorded ==
    (/\ Returned
     /\ Len(Input) >= 1
     /\ contains_key(built.command_map, Input[1])
     /\ Input[1][1] # DASH)
        => Root.cmd_name = Some(Input[1])

\* What parsing changes of a parser besides its command bookkeeping.
Entries(self) ==
    [args |-> self.args, flags |-> self.flags, options |-> self.options]

(***************************************************************************)
(* C5 amended: when the first token read at a parser level is a registered *)
(* sub-command alias that does not begin with a dash, parse hands the rest *)
(* of the stream to the sub-command's parser: every later token is read by *)
(* the sub-command's parser (or one nested in it), no step changes the     *)
(* positionals, flag counts or option values of an outer parser, and when  *)
(* the sub-command's parse returns Ok the outer parser records the token   *)
(* as cmd_name and the sub-command's parser as cmd_parser.  When the       *)
(* sub-command's parse fails, cmd_name is left unset.  A token that begins *)
(* with a dash never enters a sub-command.                                 *)
(***************************************************************************)
C5_CommandTakesTheRest ==
    /\ [](/\ \A i \in 1..Len(taken) : \A j \in i..Len(taken) :
                taken[i].depth <= taken[j].depth
          /\ \A d \in 1..Depth : d < Depth => stack[d].self.args = <<>>
          /\ (result = Ok /\ Len(Input) >= 1
                /\ contains_key(built.command_map, Input[1])
                /\ Input[1][1] # DASH)
               => /\ Root.cmd_name = Some(Input[1])
                  /\ Entries(Root) = Entries(built)
                  /\ \A i \in 2..Len(taken) : taken[i].depth >= 2
          /\ Failed => \A d \in 1..Depth : stack[d].self.cmd_name = None)
    /\ [][ /\ \A d \in 1..Depth :
                d < Depth \/ d < Depth' => Entries(stack'[d].self) = Entries(stack[d].self)
           /\ (/\ result = Running /\ has_next(argstream) /\ Top.is_first_arg
               /\ contains_key(Top.self.command_map, Arg) /\ Arg[1] # DASH)
              => /\ Depth' = Depth + 1
                 /\ Top' = Frame(At(Top.self.commands, Top.self.command_map[Arg]))
                 /\ stack'[Depth].arg = Some(Arg)
                 /\ result' = Running
           /\ Depth' > Depth => Arg[1] # DASH
           /\ Depth' < Depth
              => /\ stack'[Depth'].self.cmd_name = stack[Depth'].arg
                 /\ stack'[Depth'].self.cmd_parser = Some(Top.self)
         ]_vars

\* command "cmd" with flag x, input [cmd, -x, v]: outer cmd_name = cmd,
\* outer args = [], sub count(x) = 1, sub args = [v]
C5_Witness ==
    /\ result = Ok
    /\ built = AppParser
    /\ Input = << <<"c", "m", "d">>, <<"-", "x">>, <<"v">> >>
    /\ Root.cmd_name = Some(<<"c", "m", "d">>)
    /\ Root.args = <<>>
    /\ count(Root.cmd_parser[1], <<"x">>) = 1
    /\ Root.cmd_parser[1].args = << <<"v">> >>

\* The least element of a non-empty set of numbers.
Min(S) == CHOOSE i \in S : \A j \in S : i <= j

(***************************************************************************)
(* C6 as stated: a token equal to a registered sub-command alias at any    *)
(* position after the first is appended to positionals.  Stated for the    *)
(* runs that return Ok and whose first token is no command alias.  Fails:  *)
(* with option "opt o" and command "cmd", [--opt, cmd] stores cmd as the   *)
(* value of opt and leaves args empty.                                     *)
(***************************************************************************)
C6_LaterAliasAlwaysPositional ==
    (result = Ok /\ Len(Input) >= 2 /\ ~contains_key(built.command_map, Input[1]))
        => \A i \in 2..Len(Input) :
              (contains_key(built.command_map, Input[i]) /\ Input[i][1] # DASH)
                  => /\ Root.cmd_name = None
                     /\ \E k \in 1..Len(Root.args) : Root.args[k] = Input[i]

(***************************************************************************)
(* C6 amended: a token equal to a registered sub-command alias enters the  *)
(* sub-command only if it is the first token the loop reads at that parser *)
(* level; when the loop reads it at any later position, including directly *)
(* after a flag or an option and its value, it is appended to positionals  *)
(* and cmd_name stays unset.  (A token taken as an option's value is not   *)
(* read by the loop: it is stored as the value.)  Hence at most one        *)
(* sub-command is matched per parser level: a parser's cmd_name, when set, *)
(* is the first token its loop read.                                       *)
(***************************************************************************)
C6_OnlyFirstTokenEntersCommand ==
    /\ [](\A d \in Levels :
            LevelParser(d).cmd_name # None
                => /\ LoopReads(d) # {}
                   /\ Input[Min(LoopReads(d))] = LevelParser(d).cmd_name[1])
    /\ [][ /\ (/\ result = Running /\ has_next(argstream)
               /\ ~Top.is_first_arg
               /\ contains_key(Top.self.command_map, Arg) /\ Arg[1] # DASH)
              => /\ stack' = [stack EXCEPT ![Depth] =
                        [@ EXCEPT !.self = [@ EXCEPT !.args = Append(@, Arg)]]]
                 /\ Top.self.cmd_name = None
                 /\ argstream' = AfterArg
                 /\ result' = Running
           /\ Top.is_first_arg <=> (LoopReads(Depth) = {})
           /\ Depth' > Depth
              => /\ Top.is_first_arg
                 /\ LoopReads(Depth) = {}
                 /\ contains_key(Top.self.command_map, Arg)
         ]_vars

\* option "opt o", command "cmd", input [--opt, v, cmd]: args [cmd],
\* cmd_name unset
C6_Witness ==
    /\ result = Ok
    /\ built = AppParser
    /\ Input = << <<"-", "-", "o", "p", "t">>, <<"v">>, <<"c", "m", "d">> >>
    /\ Root.args = << <<"c", "m", "d">> >>
    /\ Root.cmd_name = None

(***************************************************************************)
(* Where the walk of a short cluster stops, from its i-th character on     *)
(* with k tokens left in the stream: at the first option character with no *)
(* token left for it ("missing"), at the first character that is no flag,  *)
(* no option and no active h or v ("bad"), at an active h or v ("exit"),   *)
(* or nowhere ("done").  A flag character is passed, an option character   *)
(* uses up one token.                                                      *)
(***************************************************************************)
RECURSIVE ClusterStop(_, _, _, _)
ClusterStop(self, arg, i, k) ==
    IF i > Len(arg) THEN [pos |-> 0, why |-> "done"]
    ELSE IF contains_key(self.flag_map, <<arg[i]>>)
    THEN ClusterStop(self, arg, i + 1, k)
    ELSE IF contains_key(self.option_map, <<arg[i]>>)
    THEN IF k = 0 THEN [pos |-> i, why |-> "missing"]
         ELSE ClusterStop(self, arg, i + 1, k - 1)
    ELSE IF \/ (arg[i] = "h" /\ self.helptext # None)
            \/ (arg[i] = "v" /\ self.version # None)
    THEN [pos |-> i, why |-> "exit"]
    ELSE [pos |-> i, why |-> "bad"]

\* The loop is about to read a token.
Reading == result = Running /\ has_next(argstream)

\* The tokens left in the stream after the one about to be read.
Remaining == Len(Input) - AfterArg.index

\* The number of values a parser holds, over all its options.
RECURSIVE CountValues(_)
CountValues(options) ==
    IF options = <<>> THEN 0
    ELSE Len(Head(options).values) + CountValues(Tail(options))

(***************************************************************************)
(* C7: an option that is supplied with no value available makes parse      *)
(* return MissingValue, and nothing is appended for it: a long option when *)
(* no token follows (the error names the token), a cluster character that  *)
(* is an option when no token is left for it (the error names the          *)
(* character and the cluster), and name=value with nothing after the =.    *)
(***************************************************************************)
C7_MissingValue ==
    [][ /\ (/\ Reading /\ IsLongToken(Arg)
            /\ ~contains_key(Top.self.flag_map, slice_from(Arg, 2))
            /\ contains_key(Top.self.option_map, slice_from(Arg, 2))
            /\ Remaining = 0)
           => /\ result' = MissingValue(format("missing value for {}", <<Arg>>))
              /\ stack' = stack
        /\ (/\ Reading /\ IsShortCluster(Arg)
            /\ ClusterStop(Top.self, Arg, 2, Remaining).why = "missing")
           => LET c == Arg[ClusterStop(Top.self, Arg, 2, Remaining).pos]
              IN  /\ result' = MissingValue(
                        IF Len(Arg) > 2
                        THEN format("missing value for '{}' in {}", <<(<<c>>), Arg>>)
                        ELSE format("missing value for {}", <<Arg>>))
                  /\ CountValues(Top'.self.options)
                        = CountValues(Top.self.options) + Remaining
                  /\ argstream'.index = Len(Input)
        /\ (/\ Reading /\ IsEqualsToken(Arg)
            /\ contains_key(Top.self.option_map, EqualsName(Arg))
            /\ EqualsValue(Arg) = <<>>)
           => /\ result' = MissingValue(format("missing value for {}",
                                               <<splitn2(Arg, EQUALS)[1]>>))
              /\ stack' = stack
      ]_vars

\* option "opt o", input [--opt]: MissingValue naming --opt, no value stored
C7_Witness ==
    /\ built = AppParser
    /\ Input = << <<"-", "-", "o", "p", "t">> >>
    /\ result.kind = "MissingValue"
    /\ result.msg.args = << <<"-", "-", "o", "p", "t">> >>
    /\ values(Root, <<"o", "p", "t">>) = <<>>

(***************************************************************************)
(* C8: a dash-prefixed token that names nothing registered makes parse     *)
(* return InvalidName: a long token whose key is no flag, no option and no *)
(* active help or version; a cluster character that is no flag, no option  *)
(* and no active h or v; and a name=value token whose key is no registered *)
(* option, also when the key is a registered flag.                         *)
(***************************************************************************)
C8_InvalidName ==
    [][ /\ (/\ Reading /\ IsLongToken(Arg)
            /\ ~contains_key(Top.self.flag_map, slice_from(Arg, 2))
            /\ ~contains_key(Top.self.option_map, slice_from(Arg, 2))
            /\ ~(Arg = HelpFlag /\ Top.self.helptext # None)
            /\ ~(Arg = VersionFlag /\ Top.self.version # None))
           => /\ result' = InvalidName(
                    format("{} is not a recognised flag or option name", <<Arg>>))
              /\ stack' = stack
        /\ (/\ Reading /\ IsShortCluster(Arg)
            /\ ClusterStop(Top.self, Arg, 2, Remaining).why = "bad")
           => LET c == Arg[ClusterStop(Top.self, Arg, 2, Remaining).pos]
              IN  result' = InvalidName(
                     IF Len(Arg) > 2
                     THEN format("'{}' in {} is not a recognised flag or option name",
                                 <<(<<c>>), Arg>>)
                     ELSE format("{} is not a recognised flag or option name",
                                 <<Arg>>))
        /\ (/\ Reading /\ IsEqualsToken(Arg)
            /\ ~contains_key(Top.self.option_map, EqualsName(Arg)))
           => /\ result' = InvalidName(format("{} is not a recognised option name",
                                              <<splitn2(Arg, EQUALS)[1]>>))
              /\ stack' = stack
      ]_vars

\* flag "flag f", input [--flag=v]: InvalidName although flag is registered
C8_Witness ==
    /\ built = AppParser
    /\ Input = << <<"-", "-", "f", "l", "a", "g", "=", "v">> >>
    /\ contains_key(Root.flag_map, <<"f", "l", "a", "g">>)
    /\ result.kind = "InvalidName"
    /\ count(Root, <<"f", "l", "a", "g">>) = 0

\* How many of the characters arg[2..n] are among the aliases A.
CharHits(arg, n, A) == Cardinality({ i \in 2..n : <<arg[i]>> \in A })

\* s is a prefix of t.
IsPrefix(s, t) == Len(s) <= Len(t) /\ SubSeq(t, 1, Len(s)) = s

(***************************************************************************)
(* C9: parse stops at the first error and returns it.  No step follows an  *)
(* error, so no token is taken after it.  The step that fails leaves every *)
(* outer parser as it was and keeps what the failing parser had: its       *)
(* positionals are unchanged, no flag count or option value is lost, and   *)
(* the characters of the failing cluster before the failing one have been  *)
(* counted and have taken their values.                                    *)
(***************************************************************************)
C9_StopsAtFirstError ==
    [][ /\ ~Failed
        /\ Failed' =>
            /\ Depth' = Depth
            /\ \A d \in 1..(Depth - 1) : stack'[d] = stack[d]
            /\ Top'.self.args = Top.self.args
            /\ \A a \in DOMAIN Top.self.option_map :
                  IsPrefix(values(Top.self, a), values(Top'.self, a))
            /\ CountValues(Top'.self.options) - CountValues(Top.self.options)
                  = IF IsShortCluster(Arg) THEN argstream'.index - AfterArg.index
                    ELSE 0
            /\ \A a \in DOMAIN Top.self.flag_map :
                  count(Top'.self, a) = count(Top.self, a) +
                    (IF IsShortCluster(Arg)
                     THEN CharHits(Arg,
                                   ClusterStop(Top.self, Arg, 2, Remaining).pos - 1,
                                   AliasesOf(Top.self.flag_map, a))
                     ELSE 0)
      ]_vars

\* flag "flag f", input [--flag, -fz, v]: InvalidName for z, count(f) = 2,
\* v never taken
C9_Witness ==
    /\ built = AppParser
    /\ Input = << <<"-", "-", "f", "l", "a", "g">>, <<"-", "f", "z">>, <<"v">> >>
    /\ result.kind = "InvalidName"
    /\ count(Root, <<"f">>) = 2
    /\ argstream.index = 2
    /\ Root.args = <<>>

(***************************************************************************)
(* The callback invocations owed once the calls at depths above lo have    *)
(* returned: one for every returned command parser that has a callback,    *)
(* innermost first, with the alias its caller recorded and the parser as   *)
(* it was stored.                                                          *)
(***************************************************************************)
RECURSIVE ExpectedCalls(_, _)
ExpectedCalls(d, lo) ==
    IF d <= lo THEN <<>>
    ELSE (IF LevelParser(d).callback # None
          THEN << [f      |-> LevelParser(d).callback[1],
                   name   |-> LevelParser(d - 1).cmd_name[1],
                   parser |-> LevelParser(d)] >>
          ELSE <<>>)
         \o ExpectedCalls(d - 1, lo)

(***************************************************************************)
(* C10: a sub-command's callback is invoked only when that sub-command's   *)
(* parse has returned Ok, once per matched sub-command, with the matched   *)
(* alias and the sub-command's parser in its final state; when a parse     *)
(* returns an error no callback has been invoked; with nested sub-commands *)
(* the inner callback runs before the outer one.                           *)
(***************************************************************************)
C10_CallbackAfterParse ==
    /\ [](/\ calls = ExpectedCalls(Depth + NestedDepth(Top.self), Depth)
          /\ Failed => calls = <<>>)
    /\ [][ calls' # calls =>
             /\ result = Running
             /\ ~has_next(argstream)
             /\ Depth > 1
             /\ Depth' = Depth - 1
             /\ Top.self.callback # None
             /\ calls' = Append(calls, [f      |-> Top.self.callback[1],
                                        name   |-> stack[Depth - 1].arg[1],
                                        parser |-> Top.self])
             /\ stack'[Depth'].self.cmd_name = stack[Depth - 1].arg
             /\ stack'[Depth'].self.cmd_parser = Some(Top.self)
         ]_vars

\* commands cmd > sub, input [cmd, sub, -x]: cb_sub runs with sub and
\* count(x) = 1, then cb_cmd runs with cmd
C10_Witness ==
    /\ result = Ok
    /\ built = AppParser
    /\ Input = << <<"c", "m", "d">>, <<"s", "u", "b">>, <<"-", "x">> >>
    /\ Len(calls) = 2
    /\ calls[1].f = "cb_sub"
    /\ calls[1].name = <<"s", "u", "b">>
    /\ count(calls[1].parser, <<"x">>) = 1
    /\ calls[2].f = "cb_cmd"
    /\ calls[2].name = <<"c", "m", "d">>
    /\ calls[2].parser = Root.cmd_parser[1]

\* The text an automatic exit prints for the name given: the help text for
\* help and h, the version text for version and v.
ExitText(self, name) ==
    IF name \in {<<"h">>, HelpWord} THEN self.helptext ELSE self.version

\* What the lookups of a long token or of the first cluster character make
\* of a name: a flag before an option before an automatic exit.
NameOutcome(self, name) ==
    IF contains_key(self.flag_map, name) THEN "flag"
    ELSE IF contains_key(self.option_map, name) THEN "option"
    ELSE IF ExitText(self, name) # None THEN "exit"
    ELSE "bad"

\* The step a name with the outcome given must make when the loop reads it
\* as --name or as the cluster -c.
NameStep(name) ==
    LET self == Top.self
        out  == NameOutcome(self, name)
    IN  /\ (result' = Exited) <=> (out = "exit")
        /\ out = "exit"
             => /\ process' = [stdout |-> process.stdout
                                           \o <<trim(ExitText(self, name)[1])>>,
                               stderr |-> <<>>,
                               exit   |-> Some(0)]
                /\ stack' = stack
        /\ out = "flag"
             => /\ result' = Running
                /\ process' = process
                /\ Top'.self = inc_flag(self, self.flag_map[name])
                /\ argstream' = AfterArg
        /\ out = "option"
             => /\ process' = process
                /\ IF Remaining = 0 THEN result'.kind = "MissingValue"
                   ELSE /\ result' = Running
                        /\ Top'.self = push_value(self, self.option_map[name],
                                                  next(AfterArg).value)
        /\ out = "bad" => result'.kind = "InvalidName" /\ process' = process

(***************************************************************************)
(* C11: --help, or the cluster character h, ends the process with status 0 *)
(* exactly when the parser that reads it has help text and the name (help, *)
(* resp. h) is neither a registered flag nor a registered option; likewise *)
(* --version and v with the version text.  A registered flag of the name   *)
(* is counted, else a registered option of the name takes its value.  An   *)
(* exit prints the trimmed text, and is never an error value: the process  *)
(* has exited exactly when parse has not returned, and no step follows.    *)
(***************************************************************************)
C11_ExitIffTextAndUnregistered ==
    /\ []((result = Exited <=> process.exit = Some(0))
           /\ (Returned => process.exit = None /\ process.stdout = <<>>))
    /\ [][ /\ result # Exited
           /\ (Reading /\ Arg \in {HelpFlag, VersionFlag})
                 => NameStep(slice_from(Arg, 2))
           /\ (Reading /\ Arg \in {<<DASH, "h">>, <<DASH, "v">>})
                 => NameStep(<<Arg[2]>>)
           /\ (Reading /\ IsShortCluster(Arg))
                 => LET stop == ClusterStop(Top.self, Arg, 2, Remaining)
                    IN  /\ (result' = Exited) <=> (stop.why = "exit")
                        /\ stop.why = "exit"
                             => process' =
                                  [stdout |-> <<trim(ExitText(Top.self,
                                                        <<Arg[stop.pos]>>)[1])>>,
                                   stderr |-> <<>>,
                                   exit   |-> Some(0)]
         ]_vars

\* help text "<tab>H", input [--flag, --help]: H is printed and the process
\* exits with status 0, parse does not return
C11_Witness ==
    /\ built = AppParser
    /\ Input = << <<"-", "-", "f", "l", "a", "g">>, HelpFlag >>
    /\ result = Exited
    /\ process = [stdout |-> << <<"H">> >>, stderr |-> <<>>, exit |-> Some(0)]
    /\ count(Root, <<"f">>) = 1

(***************************************************************************)
(* C12: with the help command enabled, when the first token a parser reads *)
(* is help and help is no registered command: with no token after it parse *)
(* returns MissingHelpArg; with a next token that is no registered command *)
(* alias parse returns InvalidName; otherwise the trimmed help text of the *)
(* command named (nothing, when it has none) is printed and the process    *)
(* exits with status 0.  In each case the parser is left as it was, so     *)
(* neither help nor its argument is added to the positionals.              *)
(***************************************************************************)
C12_HelpCommand ==
    [][ (/\ Reading
         /\ Top.is_first_arg
         /\ Top.self.cmd_help
         /\ Arg = HelpWord
         /\ ~contains_key(Top.self.command_map, HelpWord))
        => /\ stack' = stack
           /\ IF Remaining = 0
              THEN /\ result' = MissingHelpArg
                   /\ process' = process
                   /\ argstream' = AfterArg
              ELSE LET name == next(AfterArg).value
                   IN  /\ argstream' = next(AfterArg).argstream
                       /\ IF contains_key(Top.self.command_map, name)
                          THEN LET cmd == At(Top.self.commands,
                                             Top.self.command_map[name])
                               IN  /\ result' = Exited
                                   /\ process' =
                                        [stdout |-> <<trim(IF cmd.helptext = None
                                                           THEN <<>>
                                                           ELSE cmd.helptext[1])>>,
                                         stderr |-> <<>>,
                                         exit   |-> Some(0)]
                          ELSE /\ result' = InvalidName(
                                    format("'{}' is not a recognised command name",
                                           <<name>>))
                               /\ process' = process
      ]_vars

\* command "cmd c -1", help text "S<newline>", input [help, cmd]: S is printed, the
\* process exits with status 0, args stays empty
C12_Witness ==
    /\ built = AppParser
    /\ Input = << HelpWord, <<"c", "m", "d">> >>
    /\ result = Exited
    /\ process = [stdout |-> << <<"S">> >>, stderr |-> <<>>, exit |-> Some(0)]
    /\ Root.args = <<>>
    /\ Root.cmd_name = None

\* Of the tokens that follow position base, the j-th going to the name
\* keys[j], those that go to a name among A, in order.
RECURSIVE ValuesFor(_, _, _, _)
ValuesFor(keys, A, base, j) ==
    IF j > Len(keys) THEN <<>>
    ELSE (IF keys[j] \in A THEN <<Input[base + j]>> ELSE <<>>)
         \o ValuesFor(keys, A, base, j + 1)

\* The names a token read by the loop takes values for from the stream,
\* one next token each: the key of a long option, the option characters of
\* a cluster.
ValueKeys(self, arg) ==
    IF IsLongToken(arg)
    THEN IF /\ ~contains_key(self.flag_map, slice_from(arg, 2))
            /\ contains_key(self.option_map, slice_from(arg, 2))
         THEN <<slice_from(arg, 2)>> ELSE <<>>
    ELSE OptionChars(self, arg, 2)

\* The token about to be read is an option, or a cluster, that finds every
\* value it needs in the stream.
TakesValues ==
    /\ Reading
    /\ \/ (IsLongToken(Arg) /\ ValueKeys(Top.self, Arg) # <<>> /\ Remaining > 0)
       \/ /\ IsShortCluster(Arg)
          /\ ValueKeys(Top.self, Arg) # <<>>
          /\ ClusterStop(Top.self, Arg, 2, Remaining).why = "done"

(***************************************************************************)
(* C13: an option that takes its value from the next token takes that      *)
(* token verbatim, whatever its shape.  In the step that reads --opt, or a *)
(* cluster with option characters, the tokens that follow are appended     *)
(* unchanged, one for each option name in order, to the values of the      *)
(* option named; they are not classified: the positionals are unchanged,   *)
(* no flag is counted but for the flag characters of the cluster itself,   *)
(* no command is entered, nothing is printed, no error is raised, and the  *)
(* loop goes on with the token after them.                                 *)
(***************************************************************************)
C13_ValueTakenVerbatim ==
    [][ TakesValues =>
          LET self == Top.self
              keys == ValueKeys(self, Arg)
          IN  /\ result' = Running
              /\ Depth' = Depth
              /\ calls' = calls
              /\ process' = process
              /\ argstream'.index = AfterArg.index + Len(keys)
              /\ Top'.self.args = self.args
              /\ \A a \in DOMAIN self.option_map :
                    values(Top'.self, a) =
                        values(self, a)
                          \o ValuesFor(keys, AliasesOf(self.option_map, a),
                                       AfterArg.index, 1)
              /\ \A a \in DOMAIN self.flag_map :
                    count(Top'.self, a) =
                        count(self, a) +
                          (IF IsLongToken(Arg) THEN 0
                           ELSE CharHits(Arg, Len(Arg),
                                         AliasesOf(self.flag_map, a)))
      ]_vars

\* option "opt o", flag "flag f", input [--opt, --, --flag]: -- is the value
\* of opt and no sentinel, so --flag is still counted
C13_Witness ==
    /\ built = AppParser
    /\ Input = << <<"-", "-", "o", "p", "t">>, DashDash,
                  <<"-", "-", "f", "l", "a", "g">> >>
    /\ result = Ok
    /\ values(Root, <<"o">>) = << DashDash >>
    /\ count(Root, <<"f">>) = 1
    /\ Root.args = <<>>

(***************************************************************************)
(* The parser of the call at depth d as the builder left it: the parser    *)
(* parse_vec was called on, and below it the parser registered under the   *)
(* command token that each call was entered with.                          *)
(***************************************************************************)
RECURSIVE Registered(_)
Registered(d) ==
    IF d = 1 THEN built
    ELSE LET up == Registered(d - 1)
             nm == IF d - 1 < Depth THEN stack[d - 1].arg[1]
                   ELSE LevelParser(d - 1).cmd_name[1]
         IN  At(up.commands, up.command_map[nm])

(***************************************************************************)
(* C14 as stated: after parse, value(name) of a registered option is the   *)
(* last value supplied to it, and the default it was registered with when  *)
(* none was supplied; found(name) is then false.  Fails: with flag         *)
(* "flag f h help" and option "opt o v version h", [-h] counts the flag,   *)
(* the option is never supplied, and found(h) is true.                     *)
(***************************************************************************)
C14_FoundFalseWhenNotSupplied ==
    result # Running =>
    \A d \in Levels :
        \A a \in DOMAIN LevelParser(d).option_map :
            LET self == LevelParser(d)
                reg  == Registered(d)
                sup  == Supplied(d, AliasesOf(self.option_map, a), Len(taken))
            IN  IF sup = <<>>
                THEN /\ value(self, a)
                         = At(reg.options, reg.option_map[a]).default
                     /\ found(self, a) = FALSE
                ELSE value(self, a) = sup[Len(sup)]

(***************************************************************************)
(* C14 amended: after parse, value(name) of a registered option is the     *)
(* last value supplied to it, and the default it was registered with when  *)
(* none was supplied, as on empty input or input of other tokens only;     *)
(* found(name) is then false and otherwise true, unless the name is a      *)
(* flag's name as well: found looks the name up among the flags first and  *)
(* then tells whether that flag was counted.                               *)
(***************************************************************************)
C14_ValueOrDefault ==
    result # Running =>
    \A d \in Levels :
        \A a \in DOMAIN LevelParser(d).option_map :
            LET self == LevelParser(d)
                reg  == Registered(d)
                sup  == Supplied(d, AliasesOf(self.option_map, a), Len(taken))
            IN  /\ self.option_map = reg.option_map
                /\ IF sup = <<>>
                   THEN /\ value(self, a)
                            = At(reg.options, reg.option_map[a]).default
                        /\ ~contains_key(self.flag_map, a)
                             => found(self, a) = FALSE
                   ELSE /\ value(self, a) = sup[Len(sup)]
                        /\ ~contains_key(self.flag_map, a)
                             => found(self, a) = TRUE
                /\ contains_key(self.flag_map, a)
                     => found(self, a)
                          = (At(self.flags, self.flag_map[a]).count > 0)

\* option "opt o" with default d, input [--flag, v, -]: value(opt) = d,
\* found(opt) false
C14_Witness ==
    /\ built = AppParser
    /\ Input = << <<"-", "-", "f", "l", "a", "g">>, <<"v">>, <<"-">> >>
    /\ result = Ok
    /\ value(Root, <<"o", "p", "t">>) = <<"d">>
    /\ found(Root, <<"o", "p", "t">>) = FALSE
    /\ found(Root, <<"f">>) = TRUE

(***************************************************************************)
(* C15: the accessors fail, all in the same way (a panic), for a name they *)
(* cannot resolve: value and values for every name that is no registered   *)
(* option alias, a flag's name included; count and found for every name    *)
(* that is neither a flag alias nor an option alias.  For a name they      *)
(* resolve they return what the entry holds.  A call changes nothing of    *)
(* the parser, the stream or the result; the process it changes only by    *)
(* the panic, which writes its message, among the lines of the panic hook, *)
(* to stderr and which, uncaught, ends the process with status 101.        *)
(***************************************************************************)
C15_AccessorsPanicOnUnknownName ==
    [][ answer' # answer =>
          LET q      == answer'[1]
              self   == LevelParser(q.depth)
              isOpt  == contains_key(self.option_map, q.name)
              isFlag == contains_key(self.flag_map, q.name)
          IN  /\ <<stack, argstream, result, calls, taken, built>>' =
                   <<stack, argstream, result, calls, taken, built>>
              /\ ((q.f \in {"value", "values"} /\ isOpt)
                      \/ (q.f \in {"count", "found"} /\ (isOpt \/ isFlag)))
                    => process' = process
              /\ ((q.f \in {"value", "values"} /\ ~isOpt)
                      \/ (q.f \in {"count", "found"} /\ ~isOpt /\ ~isFlag))
                    =>
                    /\ process'.stdout = process.stdout
                    /\ Len(process'.stderr) = Len(process.stderr) + 4
                    /\ SubSeq(process'.stderr, 1, Len(process.stderr))
                          = process.stderr
                    /\ process'.stderr[Len(process.stderr) + 3]
                          = PanicMessage(q.f, q.name)
                    /\ process'.exit \in {None, Some(101)}
              /\ (q.f \in {"value", "values"} /\ ~isOpt) => q.out = Panic
              /\ (q.f \in {"count", "found"} /\ ~isOpt /\ ~isFlag)
                    => q.out = Panic
              /\ (q.f = "values" /\ isOpt)
                    => q.out = At(self.options, self.option_map[q.name]).values
              /\ (q.f = "value" /\ isOpt)
                    => \/ q.out = At(self.options, self.option_map[q.name]).default
                       \/ \E i \in 1..Len(values(self, q.name)) :
                             q.out = values(self, q.name)[i]
              /\ (q.f = "count" /\ (isOpt \/ isFlag)) => q.out \in Nat
              /\ (q.f = "found" /\ (isOpt \/ isFlag)) => q.out \in BOOLEAN
      ]_vars

\* flag "flag f", input [-ff]: values(flag) panics, and the count of f is
\* still 2
C15_Witness ==
    /\ built = AppParser
    /\ Input = << <<"-", "f", "f">> >>
    /\ result = Ok
    /\ answer # None
    /\ answer[1].f = "values"
    /\ answer[1].name = <<"f", "l", "a", "g">>
    /\ answer[1].out = Panic
    /\ process.exit = Some(101)
    /\ count(Root, <<"f">>) = 2

\* Names as they are given in one registration: aliases separated by
\* whitespace.
AliasLists ==
    { <<"p", " ", "q">>,
      <<" ", "l", "o", "n", "g", " ", " ", "l", " ">>,
      <<"f", " ", "n">> }

\* Every alias of a registration made on self with the names given refers to
\* the entry the registration added.
SharedOnRegistration(self, name) ==
    LET aliases == split_whitespace(name)
        pf      == flag(self, name)
        po      == option(self, name, <<"d">>)
    IN  \A i \in 1..Len(aliases) :
            /\ contains_key(pf.flag_map, aliases[i])
            /\ pf.flag_map[aliases[i]] = Len(self.flags)
            /\ Len(pf.flags) = Len(self.flags) + 1
            /\ contains_key(po.option_map, aliases[i])
            /\ po.option_map[aliases[i]] = Len(self.options)
            /\ Len(po.options) = Len(self.options) + 1

(***************************************************************************)
(* C16 as stated: once parse has returned or the process has exited, any   *)
(* two aliases a and b of one flag or of one option have the same count,   *)
(* found, values and value.  Fails: with flag "flag f h help" and option   *)
(* "opt o v version h", [-o, v] gives count(opt) = 1 and count(h) = 0,     *)
(* the count of the flag h names as well.                                  *)
(***************************************************************************)
C16_AliasesAgreeOnEverything ==
    result # Running
      => \A d \in Levels :
           LET self == LevelParser(d)
           IN  /\ \A a, b \in DOMAIN self.flag_map :
                     self.flag_map[a] = self.flag_map[b]
                       => /\ count(self, a) = count(self, b)
                          /\ found(self, a) = found(self, b)
               /\ \A a, b \in DOMAIN self.option_map :
                     self.option_map[a] = self.option_map[b]
                       => /\ values(self, a) = values(self, b)
                          /\ value(self, a) = value(self, b)
                          /\ count(self, a) = count(self, b)
                          /\ found(self, a) = found(self, b)

(***************************************************************************)
(* C16 amended: all the aliases given in one registration refer to one     *)
(* shared entry.  Registering a flag or an option on a parser as built     *)
(* (taken here with the empty input) maps each of its aliases to the one   *)
(* entry added; once parse has returned or the process has exited, any two *)
(* aliases a and b of one flag have the same count and found, and any two  *)
(* aliases of one option the same values and value, and the same count and *)
(* found when neither is a flag's name as well; an option's alias that is  *)
(* a flag's name as well has the count and found of that flag.  A flag     *)
(* supplied as --a counts under every alias of its entry and under no      *)
(* other name.                                                             *)
(***************************************************************************)
C16_AliasesShareOneEntry ==
    /\ [](Input = <<>>
            => \A name \in AliasLists : SharedOnRegistration(built, name))
    /\ [](result # Running
            => \A d \in Levels :
                 LET self == LevelParser(d)
                 IN  /\ \A a, b \in DOMAIN self.flag_map :
                           self.flag_map[a] = self.flag_map[b]
                             => /\ count(self, a) = count(self, b)
                                /\ found(self, a) = found(self, b)
                     /\ \A a, b \in DOMAIN self.option_map :
                           self.option_map[a] = self.option_map[b]
                             => /\ values(self, a) = values(self, b)
                                /\ value(self, a) = value(self, b)
                                /\ (/\ ~contains_key(self.flag_map, a)
                                    /\ ~contains_key(self.flag_map, b))
                                     => /\ count(self, a) = count(self, b)
                                        /\ found(self, a) = found(self, b)
                     /\ \A a \in DOMAIN self.option_map :
                           contains_key(self.flag_map, a)
                             => LET f == At(self.flags, self.flag_map[a])
                                IN  /\ count(self, a) = f.count
                                    /\ found(self, a) = (f.count > 0))
    /\ []((/\ contains_key(built.flag_map, <<"f", "l", "a", "g">>)
           /\ contains_key(built.option_map, <<"o", "p", "t">>))
            => /\ count(Root, <<"f", "l", "a", "g">>) = count(Root, <<"f">>)
               /\ values(Root, <<"o", "p", "t">>) = values(Root, <<"o">>)
               /\ value(Root, <<"o", "p", "t">>) = value(Root, <<"o">>))
    /\ [][ (/\ Reading
             /\ IsLongToken(Arg)
             /\ contains_key(Top.self.flag_map, slice_from(Arg, 2)))
            => \A b \in DOMAIN Top.self.flag_map :
                  count(Top'.self, b) =
                    count(Top.self, b) +
                      (IF Top.self.flag_map[b]
                            = Top.self.flag_map[slice_from(Arg, 2)]
                       THEN 1 ELSE 0)
         ]_vars

\* flag "flag f", option "opt o", input [--flag, -ofo, v]: count 2 and
\* values [v] under either alias, when the second o finds no token
C16_Witness ==
    /\ built = AppParser
    /\ Input = << <<"-", "-", "f", "l", "a", "g">>, <<"-", "o", "f", "o">>,
                  <<"v">> >>
    /\ result.kind = "MissingValue"
    /\ count(Root, <<"f", "l", "a", "g">>) = 2
    /\ count(Root, <<"f">>) = 2
    /\ values(Root, <<"o", "p", "t">>) = << <<"v">> >>
    /\ values(Root, <<"o">>) = << <<"v">> >>

\* The n-th token taken was classified as positional by the parser at depth
\* d: pushed after --, or read by the loop and either - or -digit, or not
\* dash-prefixed and not the command or help token a first read dispatches.
IsPositionalAt(d, n) ==
    /\ taken[n].depth = d
    /\ \/ taken[n].site = "rest"
       \/ /\ taken[n].site = "loop"
          /\ \/ IsDashOrNumber(Input[n])
             \/ /\ ~starts_with(Input[n], <<DASH>>)
                /\ ~(/\ n = Min(LoopReads(d))
                     /\ \/ contains_key(Registered(d).command_map, Input[n])
                        \/ Registered(d).cmd_help /\ Input[n] = HelpWord)

\* The tokens among the first n taken that are positional at depth d, in
\* input order.
RECURSIVE PositionalTokens(_, _)
PositionalTokens(d, n) ==
    IF n = 0 THEN <<>>
    ELSE PositionalTokens(d, n - 1)
         \o (IF IsPositionalAt(d, n) THEN <<Input[n]>> ELSE <<>>)

(***************************************************************************)
(* C17: after parse the args of a parser hold exactly the tokens            *)
(* classified as positional at its level, in input order, so an            *)
(* order-preserving subsequence of the input; and a parser with nothing    *)
(* registered, given no dash-prefixed token other than - and -digit ones,  *)
(* returns Ok with args equal to the input.                                *)
(***************************************************************************)
C17_ArgsArePositionalsInOrder ==
    /\ result # Running
         => \A d \in Levels :
               LevelParser(d).args = PositionalTokens(d, Len(taken))
    /\ (/\ built = new
        /\ result # Running
        /\ \A i \in 1..Len(Input) :
              ~starts_with(Input[i], <<DASH>>) \/ IsDashOrNumber(Input[i]))
       => result = Ok /\ Root.args = Input

\* nothing registered, input [-, -1, v]: args [-, -1, v]
C17_Witness ==
    /\ built = new
    /\ Input = << <<"-">>, <<"-", "1">>, <<"v">> >>
    /\ result = Ok
    /\ Root.args = << <<"-">>, <<"-", "1">>, <<"v">> >>

\* How often token t, read by the loop of parser self, supplies the option
\* with aliases A: once as --alias or as alias=value, and once for every
\* character of a cluster that is an alias; a name that is a flag's as well
\* supplies the flag.
OptionHits(self, t, A) ==
    IF IsEqualsToken(t) THEN (IF EqualsName(t) \in A THEN 1 ELSE 0)
    ELSE IF IsLongToken(t)
    THEN (IF /\ slice_from(t, 2) \in A
             /\ ~contains_key(self.flag_map, slice_from(t, 2)) THEN 1 ELSE 0)
    ELSE IF IsShortCluster(t)
    THEN Cardinality({ i \in 2..Len(t) :
                         /\ <<t[i]>> \in A
                         /\ ~contains_key(self.flag_map, <<t[i]>>) })
    ELSE 0

\* The sum of OptionHits over the positions among 1..n that the loop of the
\* parser at depth d read.
RECURSIVE SumOptionHits(_, _, _)
SumOptionHits(d, A, n) ==
    IF n = 0 THEN 0
    ELSE SumOptionHits(d, A, n - 1)
         + (IF n \in LoopReads(d)
            THEN OptionHits(LevelParser(d), Input[n], A) ELSE 0)

\* How often token t, read by a loop, names the option with aliases A: once
\* as --alias or as alias=value, and once for every character of a cluster
\* that is an alias.
NamedHits(t, A) ==
    IF IsEqualsToken(t) THEN (IF EqualsName(t) \in A THEN 1 ELSE 0)
    ELSE IF IsLongToken(t) THEN (IF slice_from(t, 2) \in A THEN 1 ELSE 0)
    ELSE IF IsShortCluster(t)
    THEN Cardinality({ i \in 2..Len(t) : <<t[i]>> \in A })
    ELSE 0

\* The sum of NamedHits over the positions among 1..n that the loop of the
\* parser at depth d read.
RECURSIVE SumNamedHits(_, _, _)
SumNamedHits(d, A, n) ==
    IF n = 0 THEN 0
    ELSE SumNamedHits(d, A, n - 1)
         + (IF n \in LoopReads(d) THEN NamedHits(Input[n], A) ELSE 0)

(* character that names nothing, and leaves the positionals alone.         *)
(***************************************************************************)
C19_ClusterLeftToRight ==
    [][ (Reading /\ IsShortCluster(Arg)) =>
          LET self == Top.self
              stop == ClusterStop(self, Arg, 2, Remaining)
              n    == IF stop.why = "done" THEN Len(Arg) ELSE stop.pos - 1
              keys == OptionChars(self, SubSeq(Arg, 1, n), 2)
          IN  /\ Depth' = Depth
              /\ Top'.self.args = self.args
              /\ argstream'.index = AfterArg.index + Len(keys)
              /\ \A a \in DOMAIN self.flag_map :
                    count(Top'.self, a) =
                        count(self, a)
                          + CharHits(Arg, n, AliasesOf(self.flag_map, a))
              /\ \A a \in DOMAIN self.option_map :
                    values(Top'.self, a) =
                        values(self, a)
                          \o ValuesFor(keys, AliasesOf(self.option_map, a),
                                       AfterArg.index, 1)
              /\ CASE stop.why = "done"    -> result' = Running
                   [] stop.why = "missing" -> /\ result'.kind = "MissingValue"
                                              /\ Len(keys) = Remaining
                                              /\ result'.msg.args[1] = <<Arg[stop.pos]>>
                                                   \/ Len(Arg) = 2
                   [] stop.why = "bad"     -> result'.kind = "InvalidName"
                   [] stop.why = "exit"    -> result' = Exited
      ]_vars

\* flag "flag f", option "opt o", input [-ofo, v, -1]: values [v, -1],
\* count(f) = 1, nothing positional
C19_Witness ==
    /\ built = AppParser
    /\ Input = << <<"-", "o", "f", "o">>, <<"v">>, <<"-", "1">> >>
    /\ result = Ok
    /\ values(Root, <<"o">>) = << <<"v">>, <<"-", "1">> >>
    /\ count(Root, <<"f">>) = 1
    /\ Root.args = <<>>

(***************************************************************************)
(* C20: the help command is off on a new parser; registering a command     *)
(* whose parser has help text switches it on, registering one without      *)
(* leaves it as it is; enable_help_command(false) switches it off and      *)
(* changes nothing else; parsing never changes it.  While it is off, a     *)
(* parser that reads help as its first token, help being no registered     *)
(* command, appends it to its positionals and goes on with the next token, *)
(* which is then no longer a first token.                                  *)
(***************************************************************************)
C20_HelpCommandSwitch ==
    /\ [](/\ new.cmd_help = FALSE
          /\ AppParser.cmd_help = TRUE
          /\ BareParser.cmd_help = FALSE
          /\ \A d \in Levels :
                LET self == LevelParser(d)
                IN  /\ command(self, <<"n">>, SubParser).cmd_help = TRUE
                    /\ command(self, <<"n">>, PlainParser).cmd_help = self.cmd_help
                    /\ enable_help_command(self, FALSE)
                         = [self EXCEPT !.cmd_help = FALSE]
                    /\ enable_help_command(self, TRUE)
                         = [self EXCEPT !.cmd_help = TRUE]
                    /\ enable_help_command(
                            command(self, <<"n">>, SubParser), FALSE).cmd_help = FALSE
                    /\ self.cmd_help = Registered(d).cmd_help)
    /\ [][ (/\ Reading
             /\ Top.is_first_arg
             /\ ~Top.self.cmd_help
             /\ Arg = HelpWord
             /\ ~contains_key(Top.self.command_map, HelpWord))
            => /\ stack' = [stack EXCEPT ![Depth] =
                              [@ EXCEPT !.self = push_arg(@, HelpWord),
                                        !.is_first_arg = FALSE]]
               /\ argstream' = AfterArg
               /\ result' = Running
               /\ process' = process
         ]_vars

\* help command switched off after a command with help text was
\* registered, input [help, cmd]: args [help, cmd], no command entered
C20_Witness ==
    /\ built = BareParser
    /\ BareParser.cmd_help = FALSE
    /\ Input = << HelpWord, <<"c", "m", "d">> >>
    /\ result = Ok
    /\ Root.args = << HelpWord, <<"c", "m", "d">> >>
    /\ Root.cmd_name = None

(***************************************************************************)
(* C21: the stream is never read past its end and never rewinds.  In every *)
(* state the cursor lies between 0 and the length of the input, and the    *)
(* calls to next so far are as many as the cursor, the n-th of them made   *)
(* by one call of parse_argstream and returning the n-th token; in every   *)
(* step the input is unchanged, the cursor does not decrease, and it       *)
(* advances by the calls to next the step makes, none of them beyond the   *)
(* end.  When parse returns Ok the cursor equals the length: every token   *)
(* was taken once, by one parser level.                                    *)
(***************************************************************************)
C21_CursorWithinStream ==
    /\ [](/\ argstream.index \in 0..Len(argstream.args)
          /\ Len(taken) = argstream.index
          /\ \A n \in 1..Len(taken) : taken[n].depth \in Levels
          /\ result = Ok => argstream.index = Len(argstream.args))
    /\ [][ /\ argstream'.args = argstream.args
           /\ argstream'.index >= argstream.index
           /\ SubSeq(taken', 1, Len(taken)) = taken
           /\ Len(taken') - Len(taken) = argstream'.index - argstream.index
           /\ argstream'.index > argstream.index => has_next(argstream)
           /\ argstream'.index <= Len(argstream.args)
         ]_vars

\* command "cmd", option "opt o" of the command, input [cmd, --opt, v]: cmd
\* is taken by the outer loop, --opt and v by the command's parser; the
\* cursor ends at 3
C21_Witness ==
    /\ built = AppParser
    /\ Input = << <<"c", "m", "d">>, <<"-", "-", "o", "p", "t">>, <<"v">> >>
    /\ result = Ok
    /\ argstream.index = 3
    /\ taken[1].depth = 1 /\ taken[1].site = "loop"
    /\ taken[2].depth = 2 /\ taken[2].site = "loop"
    /\ taken[3].depth = 2 /\ taken[3].site = "long_value"

\* The tokens not yet taken from the stream.
Unread == Len(argstream.args) - argstream.index

\* What every step of a run lowers: two for every unread token, one for
\* every active call, one for the run not having ended.
Variant == 2 * Unread + Depth + (IF result = Running THEN 1 ELSE 0)

(***************************************************************************)
(* C22: parse_vec terminates on every input and every registration,       *)
(* nested commands included.  Every run reaches a state in which parse has *)
(* returned Ok or an error or the process has exited, and stays there;     *)
(* every step lowers the variant; every iteration of a loop takes at least *)
(* one token; a recursive call starts with fewer unread tokens than its    *)
(* caller started its iteration with; and a run ends in one of Ok, an      *)
(* error value or an exit, after which nothing happens.                    *)
(***************************************************************************)
C22_ParseTerminates ==
    /\ <>[](result.kind \in {"Ok", "InvalidName", "MissingValue",
                               "MissingHelpArg", "Exit"})
    /\ [](/\ Variant \in Nat
          /\ (result = Exited) <=> (process.exit # None))
    /\ [][ /\ result = Running
           /\ Variant' < Variant
           /\ Reading => Unread' < Unread
           /\ Depth' > Depth => Depth' = Depth + 1 /\ Unread' = Unread - 1
           /\ Depth' <= Depth + 1
         ]_vars

\* commands cmd > sub, input [cmd, sub, v]: two nested calls, each started
\* with fewer unread tokens, and parse returns Ok
C22_Witness ==
    /\ built = AppParser
    /\ Input = << <<"c", "m", "d">>, <<"s", "u", "b">>, <<"v">> >>
    /\ result = Ok
    /\ Unread = 0
    /\ NestedDepth(Root) = 2
    /\ Nested(Root, 2).args = << <<"v">> >>

(***************************************************************************)
(* C23: at every level of the parser, in every state and so after parse    *)
(* has returned Ok or an error, cmd_name is set exactly when cmd_parser is *)
(* set.  When the parse of a matched command fails, the error is what      *)
(* parse returns: the step that fails inside a recursive call leaves every *)
(* caller's parser as it was and runs no callback, and every caller is     *)
(* left with cmd_name and cmd_parser both unset.                           *)
(***************************************************************************)
C23_CommandNameIffParser ==
    /\ [](/\ \A d \in Levels :
                (LevelParser(d).cmd_name = None)
                    <=> (LevelParser(d).cmd_parser = None)
          /\ Failed /\ Depth > 1 =>
                \A d \in 1..(Depth - 1) :
                    /\ stack[d].arg # None
                    /\ contains_key(Registered(d).command_map,
                                    stack[d].arg[1])
                    /\ stack[d].self.cmd_name = None
                    /\ stack[d].self.cmd_parser = None)
    /\ [][ Depth > 1 /\ result'.kind \notin {"Running", "Exit"} =>
                /\ Failed'
                /\ Depth' = Depth
                /\ calls' = calls
                /\ \A d \in 1..(Depth - 1) : stack'[d] = stack[d]
         ]_vars

\* command cmd whose parser has no -v, input [cmd, -v]: the command's parse
\* fails with InvalidName, parse returns it, and the outer parser has
\* neither cmd_name nor cmd_parser
C23_Witness ==
    /\ built = AppParser
    /\ Input = << <<"c", "m", "d">>, <<"-", "v">> >>
    /\ result.kind = "InvalidName"
    /\ Depth = 2
    /\ stack[1].arg = Some(<<"c", "m", "d">>)
    /\ Root.cmd_name = None
    /\ Root.cmd_parser = None
    /\ calls = <<>>

====
